---------------------------- MODULE Spec2Model ----------------------------
(***************************************************************************)
(* A model of gig-check: the harvest of event rows from venue pages        *)
(* (loadNextPage), the detail resolver (getEventDetails and                *)
(* getEventDetailsFromPage), and the reconciliation of a run against the   *)
(* state file of the previous run (search, updateRelevance,                *)
(* findNewEvents, cleanUpEventsToWrite).                                   *)
(*                                                                         *)
(* JavaScript values are records [kind, val]: a string is a sequence of    *)
(* one-character strings, so that whitespace normalisation, substring      *)
(* search and snippet extraction are computed, not assumed.  Objects are   *)
(* functions from the keys they hold to values: a key that is absent       *)
(* reads as undefined, JSON.stringify drops the keys whose value is        *)
(* undefined, and delete removes a key.                                    *)
(***************************************************************************)
EXTENDS Integers, Sequences, FiniteSets, TLC

VARIABLES
  \* ---- one run of search (src/src/gig-check.ts 897-964) ----
  band,        \* the band config of the run (configFactory)
  pc,          \* position of the run inside search
  file,        \* the state file: [kind |-> "missing"], [kind |-> "json", data |-> ...],
               \* or text that does not parse ("malformed", "truncated")
  limit,       \* the limit argument of the run
  previous,    \* what getPreviousData returned to this run
  sites,       \* the EventsResult list the run works on (mutated in place)
  newEvents,   \* what the last finished run returned
  \* ---- getRelevanceForEvents / getEventDetails locals ----
  siteIndex,   \* position of the for-of loop over sites (0-based)
  offset,      \* getEventDetails: the resume offset (-1: none)
  end,         \* getEventDetails: offset + count
  index,       \* getEventDetails: the loop index (0-based)
  errorCount,  \* getEventDetails: errorCount of the current site
  \* ---- the browser ----
  pagesOpen,   \* page contexts opened by newPage and not closed
  closing,     \* calls of page.close() that were not awaited and have not
               \* settled yet
  \* ---- what happened, for stating the properties ----
  fetched,     \* <<site, index>> pairs for which this run opened a detail page
  lastFetch,   \* the inputs and results of the last getEventDetailsFromPage call
  visiting,    \* getEventDetailsFromPage inside its lineup loop: what the
               \* pages answer, the site errors at the call, the links done
  savedHarvest,\* the harvest of the last run whose write succeeded
  carried,     \* <<site, index>> pairs updateRelevance copied onto in this run
  \* ---- one harvest, pass by pass (loadNextPage) ----
  hpc,         \* position of the harvest
  dom,         \* the rows the page lists now
  depth,       \* depth of the current pass of loadNextPage
  discoveredEvents, \* the ids handed to the current pass
  passErrors,  \* the errors loadNextPage returned
  results,     \* the results loadNextPage returned
  reads,       \* number of page reads ($$eval) of this harvest
  clicks,      \* number of load-more clicks of this harvest
  seenRows,    \* the id of every row read in any pass of this harvest
  recorded,    \* every error pushed in any pass of this harvest
  control,     \* what the last pass found of the load-more control
  \* ---- the end of the process (src/unnamed/part_002 74-83) ----
  lastWrite,   \* how writeFile ended in the last finished run
  exitStatus,  \* <<status>> once the process of the last run has exited, <<>>
               \* before
  \* ---- one call of findTextSnippets (src/src/util.ts 34-66) ----
  call,        \* the arguments: text, searchTerms, contextLength (a value)
  fpc,         \* position of the call
  termAt,      \* position of the for-of loop over searchTerms (0-based)
  searchFrom,  \* startIndex
  snippets,    \* snippets
  \* ---- calls of normalizeWhitespace (src/src/util.ts 6-12) ----
  input,       \* the argument of the first call
  normalized   \* what the first call returned and what a second call, on
               \* that result, returned

runVars == <<band, pc, file, limit, previous, sites, newEvents, siteIndex,
             offset, end, index, errorCount, fetched, lastFetch, visiting,
             savedHarvest, carried>>
harvestVars == <<hpc, dom, depth, discoveredEvents, passErrors, results,
                 reads, clicks, seenRows, recorded, control>>
exitVars == <<lastWrite, exitStatus>>
textVars == <<call, fpc, termAt, searchFrom, snippets, input, normalized>>
vars == <<runVars, pagesOpen, closing, harvestVars, exitVars, textVars>>

----------------------------------------------------------------------------
(* JavaScript values *)

Undefined == [kind |-> "undefined", val |-> <<>>]
Null == [kind |-> "null", val |-> <<>>]
Str(s) == [kind |-> "string", val |-> s]
Arr(a) == [kind |-> "array", val |-> a]
Num(n) == [kind |-> "number", val |-> n]

\* a === b
StrictEq(a, b) == a.kind = b.kind /\ a.val = b.val
\* v == null
IsNullish(v) == v.kind \in {"undefined", "null"}
\* if (v): null, undefined and "" are falsy, every array is truthy
Truthy(v) ==
  CASE v.kind = "string" -> v.val # <<>>
    [] v.kind = "array" -> TRUE
    [] v.kind = "number" -> v.val # 0
    [] OTHER -> FALSE

\* obj.key: an absent key reads as undefined
Get(obj, key) == IF key \in DOMAIN obj THEN obj[key] ELSE Undefined
\* obj.key = v, or {...obj, key: v}
Put(obj, key, v) ==
  [k \in (DOMAIN obj) \cup {key} |-> IF k = key THEN v ELSE obj[k]]
\* delete obj.key
Delete(obj, key) == [k \in (DOMAIN obj) \ {key} |-> obj[k]]

----------------------------------------------------------------------------
(* Strings: src/src/util.ts *)

\* the characters \s matches and trim() removes, among those of the model
IsWhitespace(c) == c \in {" ", "\n", "\t"}

RECURSIVE DropLeadingWhitespace(_)
DropLeadingWhitespace(s) ==
  IF s # <<>> /\ IsWhitespace(Head(s)) THEN DropLeadingWhitespace(Tail(s))
  ELSE s

RECURSIVE DropTrailingWhitespace(_)
DropTrailingWhitespace(s) ==
  IF s # <<>> /\ IsWhitespace(s[Len(s)])
  THEN DropTrailingWhitespace(SubSeq(s, 1, Len(s) - 1))
  ELSE s

\* s.trim()
Trim(s) == DropTrailingWhitespace(DropLeadingWhitespace(s))

RECURSIVE CollapseWhitespace(_)
\* s.replace(/\s+/g, " ")
CollapseWhitespace(s) ==
  IF s = <<>> THEN <<>>
  ELSE IF IsWhitespace(Head(s))
       THEN <<" ">> \o CollapseWhitespace(DropLeadingWhitespace(s))
       ELSE <<Head(s)>> \o CollapseWhitespace(Tail(s))

\* a normalizeWhitespace without the trim
NormalizeWhitespace_NoTrim(value) ==
  IF value.kind = "string" THEN Str(CollapseWhitespace(value.val))
  ELSE Str(<<>>)

\* normalizeWhitespace(input): a non-string input yields ""
NormalizeWhitespace(value) ==
  IF value.kind = "string" THEN Str(Trim(CollapseWhitespace(value.val)))
  ELSE Str(<<>>)

\* text.slice(from, to) for 0 <= from, to (0-based, to exclusive)
Slice(text, from, to) ==
  IF from >= to THEN <<>> ELSE SubSeq(text, from + 1, to)

\* whether term occurs in text at 0-based position i
OccursAt(text, term, i) ==
  /\ i + Len(term) <= Len(text)
  /\ \A k \in 1..Len(term) : text[i + k] = term[k]

\* text.indexOf(term, from) that looks behind position from only
IndexOf_AfterFrom(text, term, from) ==
  LET start == IF from + 1 <= Len(text) THEN from + 1 ELSE Len(text)
      hits == {i \in start..Len(text) : OccursAt(text, term, i)}
  IN  IF hits = {} THEN -1 ELSE CHOOSE i \in hits : \A j \in hits : i <= j

\* text.indexOf(term, from), 0 <= from: the first position at or after from,
\* which is clamped to the length of text, or -1
IndexOf(text, term, from) ==
  LET start == IF from <= Len(text) THEN from ELSE Len(text)
      hits == {i \in start..Len(text) : OccursAt(text, term, i)}
  IN  IF hits = {} THEN -1 ELSE CHOOSE i \in hits : \A j \in hits : i <= j

\* text.includes(term)
Includes(text, term) == IndexOf(text, term, 0) # -1

Max(a, b) == IF a >= b THEN a ELSE b
Min(a, b) == IF a <= b THEN a ELSE b

RECURSIVE ReplaceNewlines(_)
\* s.replaceAll("\n", " ")
ReplaceNewlines(s) ==
  IF s = <<>> THEN <<>>
  ELSE <<IF Head(s) = "\n" THEN " " ELSE Head(s)>> \o ReplaceNewlines(Tail(s))

Ellipsis == <<".", ".", ".">>

\* a snippet whose end forgets the length of the term
Snippet_ContextOnly(text, term, startIndex, contextLength) ==
  LET isNaN == contextLength.kind # "number"
      snippetStart == IF isNaN THEN 0
                      ELSE Max(0, startIndex - contextLength.val)
      snippetEnd == IF isNaN THEN 0
                    ELSE Min(Len(text), startIndex + contextLength.val)
      prefix == IF ~isNaN /\ snippetStart > 0 THEN Ellipsis ELSE <<>>
      suffix == IF ~isNaN /\ snippetEnd < Len(text) THEN Ellipsis ELSE <<>>
  IN  NormalizeWhitespace(
        Str(ReplaceNewlines(prefix \o Slice(text, snippetStart, snippetEnd)
                            \o suffix))).val

\* the snippet findTextSnippets pushes for a match of term at startIndex;
\* contextLength is the value of the third argument. When it is not a number
\* (the argument is not passed), startIndex - contextLength is NaN, and so
\* are Math.max(0, NaN) and Math.min(text.length, NaN): both comparisons
\* with NaN are false, so there is neither prefix nor suffix, and
\* text.slice(NaN, NaN) is text.slice(0, 0), the empty string
Snippet(text, term, startIndex, contextLength) ==
  LET isNaN == contextLength.kind # "number"
      snippetStart == IF isNaN THEN 0
                      ELSE Max(0, startIndex - contextLength.val)
      snippetEnd == IF isNaN THEN 0
                    ELSE Min(Len(text),
                             startIndex + Len(term) + contextLength.val)
      prefix == IF ~isNaN /\ snippetStart > 0 THEN Ellipsis ELSE <<>>
      suffix == IF ~isNaN /\ snippetEnd < Len(text) THEN Ellipsis ELSE <<>>
  IN  NormalizeWhitespace(
        Str(ReplaceNewlines(prefix \o Slice(text, snippetStart, snippetEnd)
                            \o suffix))).val

RECURSIVE SnippetsOfTerm(_, _, _, _)
\* the while loop of findTextSnippets for one term, from startIndex on
SnippetsOfTerm(text, term, from, contextLength) ==
  LET startIndex == IndexOf(text, term, from)
  IN  IF startIndex = -1 THEN <<>>
      ELSE <<Snippet(text, term, startIndex, contextLength)>>
           \o SnippetsOfTerm(text, term, startIndex + Len(term), contextLength)

RECURSIVE FindTextSnippets(_, _, _)
\* findTextSnippets(text, searchTerms, contextLength), every term non-empty
FindTextSnippets(text, searchTerms, contextLength) ==
  IF searchTerms = <<>> THEN <<>>
  ELSE SnippetsOfTerm(text, Head(searchTerms), 0, contextLength)
       \o FindTextSnippets(text, Tail(searchTerms), contextLength)

\* determineShowRelevance(terms, description): findTextSnippets(description,
\* terms), no context length passed
DetermineShowRelevance(terms, description) ==
  Arr(FindTextSnippets(description, terms, Undefined))

RECURSIVE Join(_, _)
\* strings.join(sep)
Join(strings, sep) ==
  IF strings = <<>> THEN <<>>
  ELSE IF Len(strings) = 1 THEN strings[1]
  ELSE strings[1] \o sep \o Join(Tail(strings), sep)

\* lower case of the letters the model's names use
ToLowerChar(c) ==
  CASE c = "O" -> "o" [] c = "M" -> "m" [] c = "F" -> "f" [] c = "B" -> "b"
    [] c = "P" -> "p" [] c = "C" -> "c" [] c = "G" -> "g"
    [] OTHER -> c

ToLower(s) == [i \in 1..Len(s) |-> ToLowerChar(s[i])]

----------------------------------------------------------------------------
(* Configuration: src/unnamed/part_001 (band), src/unnamed/part_000 681-781 *)
(* (site registry), src/unnamed/part_000 385-390 (default filters)          *)

\* config.genres
Genres == <<<<"f", "u", "n", "k">>, <<"s", "o", "u", "l">>, <<"b", "l", "u", "e", "s">>, <<"j", "a", "z", "z">>,
            <<"g", "o", "g", "o">>, <<"g", "o", "-", "g", "o">>, <<"g", "o", " ", "g", "o">>>>

\* one entry of config.filter: a plain string
BandFilter == <<[regex |-> FALSE, source |-> <<"G", "r", "o", "o", "v", "e", "n", "i", "x">>]>>

\* DEFAULT_EVENT_FILTERS: /private event/i, /cancelled/i, /postponed/i, /open mic/i
DEFAULT_EVENT_FILTERS ==
  <<[regex |-> TRUE, source |-> <<"p", "r", "i", "v", "a", "t", "e", " ", "e", "v", "e", "n", "t">>],
    [regex |-> TRUE, source |-> <<"c", "a", "n", "c", "e", "l", "l", "e", "d">>],
    [regex |-> TRUE, source |-> <<"p", "o", "s", "t", "p", "o", "n", "e", "d">>],
    [regex |-> TRUE, source |-> <<"o", "p", "e", "n", " ", "m", "i", "c">>]>>

\* testStringOrRegex(str, f): a pattern /source/i is tested against str, a
\* plain string is looked up as a case-insensitive substring
TestStringOrRegex(str, f) == Includes(ToLower(str), ToLower(f.source))

\* a two-page site without load-more control (as unionStage), one description
\* selector for the domain "x"
SiteX ==
  [url |-> "http://x",
   selectors |-> [detailLink |-> TRUE, loadMoreLink |-> FALSE,
                  loadMoreLoader |-> FALSE,
                  description |-> <<[domain |-> <<"x">>, lineup |-> FALSE,
                                     artistDescription |-> FALSE]>>]]

\* a two-page site with load-more control, loader and artist lineup (as dc9)
SiteDc9 ==
  [url |-> "http://d",
   selectors |-> [detailLink |-> TRUE, loadMoreLink |-> TRUE,
                  loadMoreLoader |-> TRUE,
                  description |-> <<[domain |-> <<"d">>, lineup |-> TRUE,
                                     artistDescription |-> TRUE]>>]]

\* a two-page site with load-more control and no loader (as ramsHead)
SiteRamsHead ==
  [url |-> "http://r",
   selectors |-> [detailLink |-> TRUE, loadMoreLink |-> TRUE,
                  loadMoreLoader |-> FALSE,
                  description |-> <<[domain |-> <<"r">>, lineup |-> FALSE,
                                     artistDescription |-> FALSE]>>]]

\* a two-page site without load-more control whose listing page shows the
\* same names and dates with different whitespace
SiteW ==
  [url |-> "http://w",
   selectors |-> [detailLink |-> TRUE, loadMoreLink |-> FALSE,
                  loadMoreLoader |-> FALSE,
                  description |-> <<[domain |-> <<"w">>, lineup |-> FALSE,
                                     artistDescription |-> FALSE]>>]]

\* a two-page site without load-more control whose listing page links to
\* detail pages on its domain "x" and elsewhere
SiteLinks ==
  [url |-> "http://l",
   selectors |-> [detailLink |-> TRUE, loadMoreLink |-> FALSE,
                  loadMoreLoader |-> FALSE,
                  description |-> <<[domain |-> <<"x">>, lineup |-> FALSE,
                                     artistDescription |-> FALSE]>>]]

\* a single-page site: no detailLink selector, the row is the description
SiteComet ==
  [url |-> "http://c",
   selectors |-> [detailLink |-> FALSE, loadMoreLink |-> FALSE,
                  loadMoreLoader |-> FALSE,
                  description |-> <<>>]]

\* the band config search is called with (configFactory)
Band(websiteConfigs) ==
  [genres |-> Genres, filter |-> BandFilter, websiteConfigs |-> websiteConfigs]

\* isTwoPageSiteSelector(selectors)
IsTwoPageSiteSelector(selectors) == selectors.detailLink

----------------------------------------------------------------------------
(* Events *)

\* getEventId(event): `${event.name}-${event.date}`
TemplateString(v) ==
  CASE v.kind = "string" -> v.val
    [] v.kind = "null" -> <<"n", "u", "l", "l">>
    [] OTHER -> <<"u", "n", "d", "e", "f", "i", "n", "e", "d">>

GetEventId(event) ==
  TemplateString(Get(event, "name")) \o <<"-">>
    \o TemplateString(Get(event, "date"))

\* a text extraction that keeps the whitespace of the element
ExtractText_Raw(text) == text

\* el.querySelector(sel)?.textContent?.replace(/\s+/g, " ").trim()
ExtractText(text) ==
  IF text.kind = "string" THEN Str(Trim(CollapseWhitespace(text.val)))
  ELSE Undefined

\* the object the $$eval callback of loadNextPage builds for one row element.
\* A row is [name, date, href, text]: the text of the name and date elements
\* (undefined: no such element), the href of the detail link (undefined: no
\* link element, null: no href attribute) and the text of the whole row.
ExtractEvent(row, selectors, page) ==
  [name |-> ExtractText(row.name),
   date |-> ExtractText(row.date),
   detailLink |-> IF selectors.detailLink THEN row.href ELSE Null,
   description |-> IF selectors.detailLink THEN Null
                   ELSE Str(Trim(row.text.val)),
   relevance |-> Null,
   page |-> Num(page)]

\* page.$$eval(site.selectors.event, ...)
ReadPage(rows, selectors, page) ==
  [i \in 1..Len(rows) |-> ExtractEvent(rows[i], selectors, page)]

\* the key match of updateRelevance and findNewEvents
SameEvent(prevEvent, event) ==
  /\ StrictEq(Get(prevEvent, "name"), Get(event, "name"))
  /\ StrictEq(Get(prevEvent, "date"), Get(event, "date"))
  /\ StrictEq(Get(prevEvent, "detailLink"), Get(event, "detailLink"))

\* array.find and array.findIndex: the first of the 1-based positions that
\* pass the test, 0 when there is none
FirstMatch(hits) ==
  IF hits = {} THEN 0 ELSE CHOOSE i \in hits : \A j \in hits : i <= j

\* previous.find((prev) => prev.url === site.url), as a position
PreviousSiteOf(site, prev) ==
  FirstMatch({i \in 1..Len(prev) : prev[i].url = site.url})

\* a findNewEvents that reports every harvested event, whatever the previous
\* data holds
FindNewEvents_ReportAll(newest, prev) == newest

\* a findNewEvents that reports nothing for a site without previous data
FindNewEvents_SkipUnknownSite(newest, prev) ==
  [s \in 1..Len(newest) |->
    LET site == newest[s]
        p == PreviousSiteOf(site, prev)
        IsNew(event) ==
          ~ \E k \in 1..Len(prev[p].events) : SameEvent(prev[p].events[k], event)
    IN  [site EXCEPT !.events =
           IF p = 0 THEN <<>> ELSE SelectSeq(site.events, IsNew)]]

\* findNewEvents(newest, previous)
FindNewEvents(newest, prev) ==
  [s \in 1..Len(newest) |->
    LET site == newest[s]
        p == PreviousSiteOf(site, prev)
        IsNew(event) ==
          ~ \E k \in 1..Len(prev[p].events) : SameEvent(prev[p].events[k], event)
    IN  [site EXCEPT !.events =
           IF p = 0 THEN site.events ELSE SelectSeq(site.events, IsNew)]]

\* an updateRelevance that adds the previous errors to those the event has
UpdateRelevance_Appending(current, prev) ==
  [s \in 1..Len(current) |->
    LET site == current[s]
        p == PreviousSiteOf(site, prev)
    IN  IF p = 0 THEN site
        ELSE [site EXCEPT !.events =
               [i \in 1..Len(site.events) |->
                 LET event == site.events[i]
                     k == FirstMatch({j \in 1..Len(prev[p].events) :
                                        SameEvent(prev[p].events[j], event)})
                     had == Get(event, "errors")
                     got == Get(prev[p].events[k], "errors")
                 IN  IF k = 0 THEN event
                     ELSE Put(Put(event, "relevance",
                                  Get(prev[p].events[k], "relevance")),
                              "errors",
                              IF had.kind = "array" /\ got.kind = "array"
                              THEN Arr(had.val \o got.val) ELSE got)]]]

\* updateRelevance(sites, previous): the events after the in-place update
UpdateRelevance(current, prev) ==
  [s \in 1..Len(current) |->
    LET site == current[s]
        p == PreviousSiteOf(site, prev)
    IN  IF p = 0 THEN site
        ELSE [site EXCEPT !.events =
               [i \in 1..Len(site.events) |->
                 LET event == site.events[i]
                     k == FirstMatch({j \in 1..Len(prev[p].events) :
                                        SameEvent(prev[p].events[j], event)})
                 IN  IF k = 0 THEN event
                     ELSE Put(Put(event, "relevance",
                                  Get(prev[p].events[k], "relevance")),
                              "errors", Get(prev[p].events[k], "errors"))]]]

\* cleanUpEventSummary(event)
CleanUpEventSummary(event) ==
  LET name == IF IsNullish(Get(event, "name")) THEN Str(<<>>)
              ELSE Get(event, "name")
      date == IF IsNullish(Get(event, "date")) THEN Str(<<>>)
              ELSE Get(event, "date")
  IN  Put(Put(event, "name", NormalizeWhitespace(name)),
          "date", NormalizeWhitespace(date))

\* a cleanUpEventsToWrite that keeps the description
CleanUpEventsToWrite_KeepDescription(current) ==
  [s \in 1..Len(current) |->
    [current[s] EXCEPT !.events =
      [i \in 1..Len(current[s].events) |->
        CleanUpEventSummary(current[s].events[i])]]]

\* cleanUpEventsToWrite(sites)
CleanUpEventsToWrite(current) ==
  [s \in 1..Len(current) |->
    [current[s] EXCEPT !.events =
      [i \in 1..Len(current[s].events) |->
        Delete(CleanUpEventSummary(current[s].events[i]), "description")]]]

\* JSON.stringify of an object: the keys whose value is undefined are dropped
StringifyObject(obj) ==
  [k \in {x \in DOMAIN obj : obj[x].kind # "undefined"} |-> obj[k]]

\* JSON.stringify(sitesToWrite, null, 2), as the data JSON.parse gives back
Stringify(toWrite) ==
  [s \in 1..Len(toWrite) |->
    [toWrite[s] EXCEPT !.events =
      [i \in 1..Len(toWrite[s].events) |->
        StringifyObject(toWrite[s].events[i])]]]

----------------------------------------------------------------------------
(* The detail page of one event: getEventDetailsFromPage,                   *)
(* src/unnamed/part_000 266-383.                                            *)
(* env is what the browser does: env.nav is "no_page" (newPage throws),     *)
(* "throw" (goto, waitForSelector, $eval or the lineup $$eval throws, the   *)
(* page being open) or "ok"; env.description is the text of the description *)
(* element; env.links are the lineup links in page order, each with its     *)
(* href (null when the attribute is missing), whether its page loads, and   *)
(* the text of its artist description.                                      *)

MsgNoSelector == "Counld not find a description selector for event"
MsgLineup == "Error fetching lineup description for event"
MsgNoDescription == "No description found for event"
MsgFetch == "Error fetching event"
MsgThrown == "TimeoutError"
MsgNoDetailLink == "No detail link found for event"
MsgNoConfig == "Unable to find config for site"

\* [...(errors ?? []), message]
PushError(errors, message) ==
  Arr(Append(IF errors.kind = "array" THEN errors.val ELSE <<>>, message))

RECURSIVE LineupLoop_NoDescriptions(_, _, _)
\* a lineup loop that visits the links and keeps none of their descriptions
LineupLoop_NoDescriptions(links, selector, acc) ==
  IF links = <<>> THEN acc
  ELSE LET link == Head(links)
           next ==
             IF ~Truthy(link.href) \/ ~selector.artistDescription THEN acc
             ELSE IF link.nav = "throw"
                  THEN [acc EXCEPT !.failed = @ + 1]
             ELSE acc
       IN  LineupLoop_NoDescriptions(Tail(links), selector, next)

RECURSIVE LineupLoop_StopAtFailure(_, _, _)
\* a lineup loop without the inner try/catch: the first link that fails ends
\* the loop
LineupLoop_StopAtFailure(links, selector, acc) ==
  IF links = <<>> THEN acc
  ELSE LET link == Head(links)
       IN  IF ~Truthy(link.href) \/ ~selector.artistDescription
           THEN LineupLoop_StopAtFailure(Tail(links), selector, acc)
           ELSE IF link.nav = "throw"
           THEN [acc EXCEPT !.failed = acc.failed + 1]
           ELSE IF Truthy(Str(Trim(link.text.val)))
           THEN LineupLoop_StopAtFailure(
                  Tail(links), selector,
                  [acc EXCEPT !.descriptions =
                     Append(acc.descriptions, Trim(link.text.val))])
           ELSE LineupLoop_StopAtFailure(Tail(links), selector, acc)

RECURSIVE LineupLoop(_, _, _)
\* the for-of loop over lineupLinks: the descriptions pushed and the number
\* of links whose fetch failed
LineupLoop(links, selector, acc) ==
  IF links = <<>> THEN acc
  ELSE LET link == Head(links)
           next ==
             IF ~Truthy(link.href) \/ ~selector.artistDescription THEN acc
             ELSE IF link.nav = "throw"
                  THEN [acc EXCEPT !.failed = @ + 1]
             ELSE IF Truthy(Str(Trim(link.text.val)))
                  THEN [acc EXCEPT
                          !.descriptions = Append(@, Trim(link.text.val))]
             ELSE acc
       IN  LineupLoop(Tail(links), selector, next)

RECURSIVE Repeat(_, _)
Repeat(x, n) == IF n = 0 THEN <<>> ELSE <<x>> \o Repeat(x, n - 1)

\* getEventDetailsFromPage(browser, band, websiteConfig, event,
\* eventSummaries, index, timeout): the event and the site errors afterwards,
\* the returned errorCount and success, the pages opened, and the calls of
\* page.close(), which is not awaited (360, 368): the page is still open when
\* the function returns
GetEventDetailsFromPage(bandConfig, websiteConfig, event, siteErrors, env) ==
  LET link == Get(event, "detailLink")
      selectors == websiteConfig.selectors.description
      k == FirstMatch({i \in 1..Len(selectors) :
                         /\ link.kind = "string"
                         /\ Includes(link.val, selectors[i].domain)})
      selector == selectors[k]
      first == IF Truthy(Str(Trim(env.description.val)))
               THEN <<Trim(env.description.val)>> ELSE <<>>
      loop == IF selector.lineup
              THEN LineupLoop(env.links, selector,
                              [descriptions |-> first, failed |-> 0])
              ELSE [descriptions |-> first, failed |-> 0]
  IN  IF k = 0
      THEN [event |-> event, errors |-> Append(siteErrors, MsgNoSelector),
            success |-> FALSE, errorCount |-> 1, opened |-> 0,
            closeCalled |-> 0,
            descriptions |-> <<>>]
      ELSE IF env.nav # "ok"
      THEN [event |-> Put(event, "errors",
                          PushError(Get(event, "errors"), MsgThrown)),
            errors |-> Append(siteErrors, MsgFetch),
            success |-> FALSE, errorCount |-> 1,
            opened |-> IF env.nav = "throw" THEN 1 ELSE 0, closeCalled |-> 0,
            descriptions |-> <<>>]
      ELSE IF Len(loop.descriptions) > 0
      THEN [event |-> Put(event, "relevance",
                          DetermineShowRelevance(bandConfig.genres,
                                                 Join(loop.descriptions, <<"\n">>))),
            errors |-> siteErrors \o Repeat(MsgLineup, loop.failed),
            success |-> TRUE, errorCount |-> loop.failed,
            opened |-> 1, closeCalled |-> 1,
            descriptions |-> loop.descriptions]
      ELSE [event |-> Put(event, "errors",
                          PushError(Get(event, "errors"), MsgNoDescription)),
            errors |-> Append(siteErrors \o Repeat(MsgLineup, loop.failed),
                              MsgNoDescription),
            success |-> FALSE, errorCount |-> loop.failed + 1,
            opened |-> 1, closeCalled |-> 1,
            descriptions |-> <<>>]

----------------------------------------------------------------------------
(* What the venues and the browser may do, within the bounds *)

\* the longest list of rows a page shows
MaxEvents == 3
\* the largest limit a run is started with
MaxLimit == 2
\* the longest artist lineup of a detail page
MaxLinks == 3
\* the longest errors list an event gets: search is not started on a state
\* file in which an event holds as many errors
MaxErrors == 2
\* the longest list of events a resumed detail pass starts from
MaxResumed == 5
\* loadNextPage: maxDepth = 6
MaxDepth == 6

\* a row element whose children are the name element and the date element
\* (when it has them): its textContent is the text of its descendants in
\* document order
Row(name, date, href) ==
  [name |-> name, date |-> date, href |-> href,
   text |-> Str((IF name.kind = "string" THEN name.val ELSE <<>>)
                \o (IF date.kind = "string" THEN date.val ELSE <<>>))]

RowFoo == Row(Str(<<" ", "F", "o", "o", "\n">>), Str(<<"M", "a", "y", " ", " ", "1">>), Str(<<"x", "/", "1">>))
RowOpenMic == Row(Str(<<"O", "p", "e", "n", " ", "M", "i", "c">>), Str(<<"M", "a", "y", " ", "3">>), Str(<<"x", "/", "3">>))
RowNameless == Row(Undefined, Str(<<"M", "a", "y", " ", "4">>), Str(<<"x", "/", "4">>))

\* the rows the listing page of SiteX shows at one time or another, in page
\* order
ListingX == <<RowOpenMic, RowFoo, RowNameless>>

RowA == Row(Str(<<"A">>), Str(<<"1">>), Str(<<"d", "/", "a">>))
RowB == Row(Str(<<"B">>), Str(<<"2">>), Str(<<"d", "/", "b">>))

\* the rows a page with a load-more control shows
ListingMore == <<RowA, RowB>>

\* rows whose names and dates differ in whitespace only (the first three), in
\* a letter, or in the date; a row without name element and a row with a blank
\* name; two rows with a hyphen in the name or in the date
ListingW ==
  <<Row(Str(<<"a", " ", "b">>), Str(<<"1">>), Str(<<"w", "/", "1">>)),
    Row(Str(<<" ", "a", " ", " ", "b", "\n">>), Str(<<" ", "1">>),
        Str(<<"w", "/", "2">>)),
    Row(Str(<<"a", "\n", "b">>), Str(<<"1", "\t">>), Str(<<"w", "/", "3">>)),
    Row(Str(<<"a", "b">>), Str(<<"1">>), Str(<<"w", "/", "4">>)),
    Row(Str(<<"a", " ", "b">>), Str(<<"2">>), Str(<<"w", "/", "5">>)),
    Row(Undefined, Str(<<"1">>), Str(<<"w", "/", "6">>)),
    Row(Str(<<" ">>), Str(<<"1">>), Str(<<"w", "/", "7">>)),
    Row(Str(<<"a", "-", "b">>), Str(<<"1">>), Str(<<"w", "/", "8">>)),
    Row(Str(<<"a">>), Str(<<"b", "-", "1">>), Str(<<"w", "/", "9">>))>>

\* rows whose link is on the domain of the description selector, has no href
\* attribute, is missing, or is on a domain no description selector names
ListingLinks ==
  <<Row(Str(<<"E", "1">>), Str(<<"M", "a", "y", " ", "1">>),
        Str(<<"x", "/", "1">>)),
    Row(Str(<<"E", "2">>), Str(<<"M", "a", "y", " ", "2">>), Null),
    Row(Str(<<"E", "3">>), Str(<<"M", "a", "y", " ", "3">>), Undefined),
    Row(Str(<<"E", "4">>), Str(<<"M", "a", "y", " ", "4">>),
        Str(<<"z", "/", "4">>))>>

\* a row element without name element, date element or text
RowBlank == Row(Undefined, Undefined, Undefined)

\* the rows the listing page of a single-page site shows at one time or
\* another
ListingComet == <<RowOpenMic, RowFoo, RowNameless, RowBlank>>

Listing(site) ==
  IF site.selectors.loadMoreLink THEN ListingMore
  ELSE IF site.url = SiteComet.url THEN ListingComet
  ELSE IF site.url = SiteW.url THEN ListingW
  ELSE IF site.url = SiteLinks.url THEN ListingLinks
  ELSE ListingX

\* the sub-lists of a listing, in page order
SubLists(listing) ==
  {SelectSeq(listing, LAMBDA r : r \in keep) :
     keep \in SUBSET {listing[i] : i \in 1..Len(listing)}}

\* what the page shows when it is opened
Doms(site) == {d \in SubLists(Listing(site)) : Len(d) <= MaxEvents}

\* what the page shows after a click on load-more: the same rows, one more
\* row appended (new, or one it shows already), or the list rendered anew
NextDoms(site, d) ==
  {d} \cup Doms(site)
      \cup {Append(d, Listing(site)[i]) :
              i \in {j \in 1..Len(Listing(site)) : Len(d) < MaxEvents}}

TextSoul == Str(<<" ", "l", "i", "v", "e", " ", "s", "o", "u", "l", " ">>)
TextRock == Str(<<"r", "o", "c", "k">>)
TextNone == Str(<<" ">>)

LinkOk(text) == [href |-> Str(<<"d", "/", "m">>), nav |-> "ok", text |-> text]
LinkThrow == [href |-> Str(<<"d", "/", "m">>), nav |-> "throw", text |-> TextNone]
LinkNoHref == [href |-> Null, nav |-> "ok", text |-> TextNone]

\* what one lineup link may do
LinkOutcomes == {LinkOk(TextSoul), LinkOk(TextNone), LinkThrow, LinkNoHref}

\* the lineups of at most n links
RECURSIVE Lineups(_)
Lineups(n) ==
  IF n = 0 THEN {<<>>}
  ELSE Lineups(n - 1)
       \cup {Append(l, o) : l \in {x \in Lineups(n - 1) : Len(x) = n - 1},
                            o \in LinkOutcomes}

\* what the browser may do on one detail fetch of a site
FetchEnvs(site) ==
  LET lineups == IF \E i \in 1..Len(site.selectors.description) :
                      site.selectors.description[i].lineup
                 THEN Lineups(MaxLinks) ELSE {<<>>}
  IN  [nav : {"no_page", "throw"}, description : {TextNone}, links : {<<>>}]
      \cup [nav : {"ok"}, description : {TextNone, TextSoul, TextRock},
            links : lineups]

NoEnv == [nav |-> "none", description |-> TextNone, links |-> <<>>]

MsgFindButton == "Could not find load more button"
MsgLoader == "Error waiting for load more loader"
MsgMoreEvents == "Error waiting for more events to load"
MsgHarvest == "Error"

\* what the page and the load-more control may do in one pass of loadNextPage
\* with the rows shown, the pass looking for the control or not: whether the
\* event container appears, what page.$ finds ("throws", "absent", "hidden":
\* not visible, "transparent": opacity 0, "broken": visible and the click
\* throws, "visible"), how the wait after the click ends and what the page
\* shows when the next pass reads it (the wait and the read are separate
\* awaits: rows may arrive after a timeout and be gone after a wait that
\* succeeded)
PassEnvs(site, looks, shown) ==
  LET quiet == [container : {"ok"}, button : {"none"}, wait : {"none"},
                dom : {shown}]
      failing == [container : {"throw"}, button : {"none"}, wait : {"none"},
                  dom : {shown}]
      stopping == [container : {"ok"},
                   button : {"throws", "absent", "hidden", "transparent",
                             "broken"},
                   wait : {"none"}, dom : {shown}]
      clicking == [container : {"ok"}, button : {"visible"},
                   wait : {"ok", "timeout"}, dom : NextDoms(site, shown)]
  IN  IF looks THEN failing \cup stopping \cup clicking
      ELSE failing \cup quiet

----------------------------------------------------------------------------
(* The harvest: loadAllEventSummaries, getEventSummariesFromWebsite and     *)
(* loadNextPage, src/unnamed/part_000 42-260 and 613-645                    *)

Range(seq) == {seq[i] : i \in 1..Len(seq)}

\* the site the loop of loadAllEventSummaries is at
CurrentConfig == band.websiteConfigs[siteIndex + 1]

\* no detail page has been fetched in this run
NoFetch == [called |-> FALSE]

\* getEventDetailsFromPage is not inside its lineup loop
NoVisit == [started |-> FALSE]

\* what a finished run leaves behind in memory: nothing (the process exits)
RunReset ==
  /\ limit' = 0
  /\ previous' = <<>>
  /\ sites' = <<>>
  /\ newEvents' = <<>>
  /\ siteIndex' = 0
  /\ offset' = -1
  /\ end' = 0
  /\ index' = 0
  /\ errorCount' = 0
  /\ pagesOpen' = 0
  /\ closing' = 0
  /\ fetched' = {}
  /\ lastFetch' = NoFetch
  /\ visiting' = NoVisit
  /\ carried' = {}
  /\ hpc' = "idle"
  /\ dom' = <<>>
  /\ depth' = 0
  /\ discoveredEvents' = <<>>
  /\ passErrors' = <<>>
  /\ results' = <<>>
  /\ reads' = 0
  /\ clicks' = 0
  /\ seenRows' = {}
  /\ recorded' = <<>>
  /\ control' = "none"

\* a rejection nothing in search catches: search rejects, or the rejection
\* is unhandled; saveEvents is never reached and the process exits with 1
Abort ==
  /\ pc' = "idle"
  /\ exitStatus' = <<1>>
  /\ RunReset
  /\ UNCHANGED <<band, file, savedHarvest, lastWrite>>

\* sites.push(data), and the loop of loadAllEventSummaries moves on
PushSite(data) ==
  /\ sites' = Append(sites, data)
  /\ siteIndex' = IF siteIndex + 1 = Len(band.websiteConfigs) THEN 0
                  ELSE siteIndex + 1
  /\ pc' = IF siteIndex + 1 = Len(band.websiteConfigs) THEN "harvested"
           ELSE "loaded"

\* getEventSummariesFromWebsite up to its call of loadNextPage: newPage and
\* goto.  newPage is awaited outside the try (228): when it rejects, search
\* rejects.  A goto that throws is caught, and finally awaits page.close(),
\* whose rejection leaves the function as well
BeginHarvest ==
  /\ pc = "loaded"
  /\ hpc = "idle"
  /\ \E nav \in {"ok", "throw", "no_page"}, close \in {"ok", "reject"},
        shown \in Doms(CurrentConfig) :
       IF nav = "no_page" \/ (nav = "throw" /\ close = "reject")
       THEN Abort
       ELSE /\ depth' = 0
            /\ discoveredEvents' = <<>>
            /\ passErrors' = <<>>
            /\ results' = <<>>
            /\ reads' = 0
            /\ clicks' = 0
            /\ seenRows' = {}
            /\ recorded' = <<>>
            /\ control' = "none"
            /\ IF nav = "throw"
               THEN /\ PushSite([url |-> CurrentConfig.url, events |-> <<>>,
                                 errors |-> <<MsgHarvest>>])
                    /\ dom' = <<>>
                    /\ UNCHANGED <<hpc, pagesOpen, closing>>
               ELSE /\ hpc' = "pass"
                    /\ dom' = shown
                    /\ pagesOpen' = pagesOpen + 1
                    /\ UNCHANGED <<sites, siteIndex, pc, closing>>
            /\ UNCHANGED <<band, file, limit, previous, newEvents, offset,
                           end, index, errorCount, fetched, lastFetch, visiting,
                           savedHarvest, carried>>
            /\ UNCHANGED exitVars
  /\ UNCHANGED textVars

\* a depth test that lets one more pass through
DepthExceeded_OneMore(d, maxDepth) == d > maxDepth

\* depthExceeded = maxDepth == null ? false : depth >= maxDepth
DepthExceeded(d, maxDepth) == d >= maxDepth

\* a test for the load-more control that leaves the depth aside
LooksForLoadMore_AtAnyDepth(site, d) == site.selectors.loadMoreLink

\* site.selectors.loadMoreLink && !depthExceeded
LooksForLoadMore(site, d) ==
  site.selectors.loadMoreLink /\ ~DepthExceeded(d, MaxDepth)

\* a return that puts what the passes above hold in front of what the
\* deepest pass returned
Returned_Concatenated(own, more) ==
  [results |-> own.results \o more.results, errors |-> own.errors \o more.errors]

\* what a pass that clicked returns once the pass below it has returned:
\* resultsOnPage = moreResults.results and errors = moreResults.errors.  own
\* is what the passes above the deepest hold, the rows they found new (their
\* ids) and the errors they pushed; more is what the deepest pass returned.
Returned(own, more) == more

\* one pass of loadNextPage.  A pass that does not click returns, and every
\* frame above it returns what it got (resultsOnPage = moreResults.results,
\* errors = moreResults.errors), so that getEventSummariesFromWebsite gets
\* the results and the errors of the deepest pass; a rejection passes through
\* every frame to its catch.  Either way finally awaits page.close(); when
\* that rejects, getEventSummariesFromWebsite rejects and search with it.
LoadNextPage ==
  /\ hpc = "pass"
  /\ \E env \in PassEnvs(CurrentConfig,
                          LooksForLoadMore(CurrentConfig, depth), dom),
        close \in {"ok", "reject"} :
       LET site == CurrentConfig
           returns == env.container = "throw" \/ env.button # "visible"
           resultsOnPage == ReadPage(dom, site.selectors, depth)
           errors == IF env.button = "throws" THEN <<MsgFindButton>> ELSE <<>>
           afterWait ==
             IF env.wait = "timeout"
             THEN Append(errors, IF site.selectors.loadMoreLoader
                                 THEN MsgLoader ELSE MsgMoreEvents)
             ELSE errors
           IsNewId(event) ==
             ~ \E k \in 1..Len(discoveredEvents) :
                 discoveredEvents[k] = GetEventId(event)
           found == SelectSeq(resultsOnPage, IsNewId)
           eventIds ==
             discoveredEvents \o [i \in 1..Len(found) |-> GetEventId(found[i])]
           deepest == [results |-> resultsOnPage, errors |-> errors]
           final == IF depth = 0 THEN deepest
                    ELSE Returned([results |-> discoveredEvents,
                                   errors |-> recorded], deepest)
       IN  IF returns /\ close = "reject"
           THEN \* await page.close() in finally rejects
                Abort
           ELSE
           (control' = IF env.container = "throw" THEN "none" ELSE env.button) /\
           UNCHANGED <<band, file, limit, previous, newEvents, offset, end,
                       index, errorCount, fetched, lastFetch, visiting, savedHarvest,
                       carried, closing, exitVars>> /\
           IF env.container = "throw"
           THEN /\ PushSite([url |-> site.url, events |-> <<>>,
                             errors |-> <<MsgHarvest>>])
                /\ hpc' = "idle"
                /\ pagesOpen' = pagesOpen - 1
                /\ results' = <<>>
                /\ passErrors' = <<>>
                /\ UNCHANGED <<dom, depth, discoveredEvents, reads, clicks,
                               seenRows, recorded>>
           ELSE IF env.button = "broken"
           THEN /\ PushSite([url |-> site.url, events |-> <<>>,
                             errors |-> <<MsgHarvest>>])
                /\ hpc' = "idle"
                /\ pagesOpen' = pagesOpen - 1
                /\ results' = <<>>
                /\ passErrors' = <<>>
                /\ reads' = reads + 1
                /\ seenRows' = seenRows \cup {GetEventId(e) : e \in Range(resultsOnPage)}
                /\ UNCHANGED <<dom, depth, discoveredEvents, clicks, recorded>>
           ELSE IF env.button = "visible"
           THEN /\ hpc' = "pass"
                /\ dom' = env.dom
                /\ depth' = depth + 1
                /\ discoveredEvents' = eventIds
                /\ reads' = reads + 1
                /\ clicks' = clicks + 1
                /\ seenRows' = seenRows \cup {GetEventId(e) : e \in Range(resultsOnPage)}
                /\ recorded' = recorded \o afterWait
                /\ UNCHANGED <<sites, siteIndex, pc, pagesOpen, results,
                               passErrors>>
           ELSE /\ PushSite([url |-> site.url, events |-> final.results,
                             errors |-> final.errors])
                /\ hpc' = "idle"
                /\ pagesOpen' = pagesOpen - 1
                /\ results' = final.results
                /\ passErrors' = final.errors
                /\ reads' = reads + 1
                /\ seenRows' = seenRows \cup {GetEventId(e) : e \in Range(resultsOnPage)}
                /\ recorded' = recorded \o errors
                /\ UNCHANGED <<dom, depth, discoveredEvents, clicks>>
  /\ UNCHANGED textVars

----------------------------------------------------------------------------
(* One run: search, src/src/gig-check.ts 897-964, with                      *)
(* getRelevanceForEvents and getEventDetails, src/unnamed/part_000 399-679  *)

\* a getPreviousData that takes what it can read out of a damaged file
GetPreviousData_Lenient(f) == f.data

\* getPreviousData(file): access rejects for a missing file and JSON.parse
\* throws for a malformed one; the catch gives []
GetPreviousData(f) == IF f.kind = "json" THEN f.data ELSE <<>>

\* a state file that JSON.parse rejects; data is what a reader that skips the
\* damage would take from it, an earlier harvest of the first listed row
MalformedFile ==
  [kind |-> "malformed",
   data |-> Stringify(CleanUpEventsToWrite(
              <<[url |-> SiteX.url,
                 events |-> ReadPage(<<ListingX[1]>>, SiteX.selectors, 0),
                 errors |-> <<>>]>>))]

\* search up to loadAllEventSummaries: getPreviousData, puppeteer.launch
StartSearch ==
  /\ pc = "idle"
  /\ \E launched \in BOOLEAN :
       IF launched
       THEN /\ pc' = "loaded"
            /\ \E l \in 0..MaxLimit : limit' = l
            /\ previous' = GetPreviousData(file)
            /\ exitStatus' = <<>>
       ELSE \* puppeteer.launch rejects: search rejects, the handler's catch
            \* exits with 1
            /\ pc' = "idle"
            /\ exitStatus' = <<1>>
            /\ UNCHANGED <<limit, previous>>
  /\ lastWrite' = "none"
  /\ UNCHANGED <<band, file, sites, newEvents, siteIndex, offset, end, index,
                 errorCount, fetched, lastFetch, visiting, savedHarvest, carried,
                 pagesOpen, closing, harvestVars>>
  /\ UNCHANGED textVars

\* the <<site, index>> pairs (0-based) whose event has a match in the previous
\* data of its site
Matched(current, prev) ==
  UNION {{<<s - 1, i - 1>> :
            i \in {j \in 1..Len(current[s].events) :
                     LET q == PreviousSiteOf(current[s], prev)
                     IN  /\ q # 0
                         /\ \E k \in 1..Len(prev[q].events) :
                              SameEvent(prev[q].events[k],
                                        current[s].events[j])}} :
         s \in 1..Len(current)}

\* updateRelevance(sites, previous)
UpdateRelevanceStep ==
  /\ pc = "harvested"
  /\ pc' = IF Len(sites) = 0 THEN "resolved" ELSE "carried"
  /\ sites' = UpdateRelevance(sites, previous)
  /\ carried' = Matched(sites, previous)
  /\ siteIndex' = 0
  /\ UNCHANGED <<band, file, limit, previous, newEvents, offset, end, index,
                 errorCount, fetched, lastFetch, visiting, savedHarvest, pagesOpen, closing,
                 harvestVars>>
  /\ UNCHANGED <<exitVars, textVars>>

\* the loop of getRelevanceForEvents moves on to the next site
NextSite ==
  /\ siteIndex' = siteIndex + 1
  /\ pc' = IF siteIndex + 1 = Len(sites) THEN "resolved" ELSE "carried"

\* a resume offset that looks at relevance alone
ResumeOffset_IgnoreErrors(events) ==
  FirstMatch({i \in 1..Len(events) :
                IsNullish(Get(events[i], "relevance"))}) - 1

\* eventSummaries.events.findIndex((e) => e.relevance == null && e.errors == null)
ResumeOffset(events) ==
  FirstMatch({i \in 1..Len(events) :
                /\ IsNullish(Get(events[i], "relevance"))
                /\ IsNullish(Get(events[i], "errors"))}) - 1

\* a count that applies the limit to every site
Count_AlwaysLimited(websiteConfig, lim, remaining) == Min(lim, remaining)

\* a count that ignores the limit
Count_Unlimited(websiteConfig, lim, remaining) == remaining

\* count = isTwoPageSiteSelector(websiteConfig.selectors)
\*           ? Math.min(limit, remaining) : remaining
Count(websiteConfig, lim, remaining) ==
  IF IsTwoPageSiteSelector(websiteConfig.selectors) THEN Min(lim, remaining)
  ELSE remaining

\* band.websiteConfigs.find((c) => c.url === site.url), as a position
ConfigOf(site) ==
  FirstMatch({i \in 1..Len(band.websiteConfigs) :
                band.websiteConfigs[i].url = site.url})

\* one turn of the loop of getRelevanceForEvents up to the loop of
\* getEventDetails: the config of the site, the resume offset and the count
BeginSite ==
  /\ pc = "carried"
  /\ siteIndex < Len(sites)
  /\ LET site == sites[siteIndex + 1]
         c == ConfigOf(site)
         start == ResumeOffset(site.events)
         remaining == Len(site.events) - start
         count == Count(band.websiteConfigs[c], limit, remaining)
     IN  IF c = 0
         THEN /\ sites' = [sites EXCEPT ![siteIndex + 1].errors =
                             Append(@, MsgNoConfig)]
              /\ NextSite
              /\ UNCHANGED <<offset, end, index, errorCount>>
         ELSE IF Len(site.events) = 0 \/ start = -1 \/ count <= 0
         THEN /\ NextSite
              /\ offset' = start
              /\ end' = IF start = -1 \/ Len(site.events) = 0 THEN 0
                        ELSE start + count
              /\ index' = 0
              /\ errorCount' = 0
              /\ UNCHANGED sites
         ELSE /\ pc' = "details"
              /\ offset' = start
              /\ end' = start + count
              /\ index' = start
              /\ errorCount' = 0
              /\ UNCHANGED <<sites, siteIndex>>
  /\ UNCHANGED <<band, file, limit, previous, newEvents, fetched, lastFetch, visiting,
                 savedHarvest, carried, pagesOpen, closing, harvestVars>>
  /\ UNCHANGED <<exitVars, textVars>>

\* [...(band.filter ?? []), ...DEFAULT_EVENT_FILTERS]
Filters == band.filter \o DEFAULT_EVENT_FILTERS

\* filter.some((f) => testStringOrRegex(event.name || "", f))
MatchesFilter(event) ==
  LET name == IF Truthy(Get(event, "name")) THEN Get(event, "name").val
              ELSE <<>>
  IN  \E k \in 1..Len(Filters) : TestStringOrRegex(name, Filters[k])

\* a loop body that does not skip an event whose relevance is set
Branch_NoSkip(websiteConfig, event) ==
  IF MatchesFilter(event) THEN "filter"
  ELSE IF IsTwoPageSiteSelector(websiteConfig.selectors) THEN "fetch"
  ELSE IF Truthy(Get(event, "description")) THEN "description"
  ELSE "misconfigured"

\* a loop body without the exclusion filter
Branch_NoFilter(websiteConfig, event) ==
  IF Truthy(Get(event, "relevance")) THEN "skip"
  ELSE IF IsTwoPageSiteSelector(websiteConfig.selectors) THEN "fetch"
  ELSE IF Truthy(Get(event, "description")) THEN "description"
  ELSE "misconfigured"

\* what the body of the loop of getEventDetails does with an event:
\* "skip" (relevance is set), "filter", "fetch" (two-page site),
\* "description" (single-page site with a description), "misconfigured"
Branch(websiteConfig, event) ==
  IF Truthy(Get(event, "relevance")) THEN "skip"
  ELSE IF MatchesFilter(event) THEN "filter"
  ELSE IF IsTwoPageSiteSelector(websiteConfig.selectors) THEN "fetch"
  ELSE IF Truthy(Get(event, "description")) THEN "description"
  ELSE "misconfigured"

\* one turn of the loop of getEventDetails, and its return after the last.
\* A turn that fetches the detail page goes as far as the await of
\* browser.newPage() (296): without a description selector, or when newPage
\* rejects, the turn is over; with the page open, FetchDetailPage goes on
DetailStep ==
  /\ pc = "details"
  /\ index < end
  /\ LET site == sites[siteIndex + 1]
         websiteConfig == band.websiteConfigs[ConfigOf(site)]
         event == site.events[index + 1]
         branch == Branch(websiteConfig, event)
         selected == \E k \in 1..Len(websiteConfig.selectors.description) :
                       /\ Get(event, "detailLink").kind = "string"
                       /\ Includes(Get(event, "detailLink").val,
                                   websiteConfig.selectors.description[k].domain)
     IN  \E env \in IF branch = "fetch" /\ selected
                    THEN {e \in FetchEnvs(websiteConfig) : e.nav = "no_page"}
                    ELSE {NoEnv}, opens \in BOOLEAN :
           LET r == GetEventDetailsFromPage(band, websiteConfig, event,
                                            site.errors, env)
           IN  IF branch = "fetch" /\ selected /\ opens
               THEN /\ pc' = "fetching"
                    /\ pagesOpen' = pagesOpen + 1
                    /\ fetched' = fetched \cup {<<siteIndex, index>>}
                    /\ UNCHANGED <<sites, errorCount, lastFetch, visiting, closing,
                                   index, siteIndex>>
               ELSE
               /\ CASE branch = "skip" ->
                         UNCHANGED <<sites, errorCount, fetched, lastFetch, visiting,
                                     pagesOpen, closing>>
                    [] branch = "filter" ->
                         /\ sites' = [sites EXCEPT
                              ![siteIndex + 1].events[index + 1] =
                                 Put(event, "relevance", Arr(<<>>))]
                         /\ UNCHANGED <<errorCount, fetched, lastFetch, visiting,
                                        pagesOpen, closing>>
                    [] branch = "fetch" ->
                         /\ sites' = [sites EXCEPT
                              ![siteIndex + 1].events[index + 1] = r.event,
                              ![siteIndex + 1].errors = r.errors]
                         /\ errorCount' = errorCount + r.errorCount
                         /\ lastFetch' = [called |-> TRUE, site |-> siteIndex,
                                          index |-> index, env |-> env,
                                          success |-> r.success,
                                          errorCount |-> r.errorCount,
                                          descriptions |-> r.descriptions]
                         /\ UNCHANGED <<fetched, visiting, pagesOpen,
                                        closing>>
                    [] branch = "description" ->
                         /\ sites' = [sites EXCEPT
                              ![siteIndex + 1].events[index + 1] =
                                 Put(event, "relevance",
                                     DetermineShowRelevance(
                                       band.genres,
                                       Get(event, "description").val))]
                         /\ UNCHANGED <<errorCount, fetched, lastFetch, visiting,
                                        pagesOpen, closing>>
                    [] OTHER ->
                         /\ sites' = [sites EXCEPT ![siteIndex + 1].errors =
                                        Append(@, MsgNoDetailLink)]
                         /\ errorCount' = errorCount + 1
                         /\ UNCHANGED <<fetched, lastFetch, visiting, pagesOpen, closing>>
               /\ index' = index + 1
               /\ IF index + 1 = end THEN NextSite
                  ELSE UNCHANGED <<siteIndex, pc>>
  /\ UNCHANGED <<band, file, limit, previous, newEvents, offset, end,
                 savedHarvest, carried, harvestVars>>
  /\ UNCHANGED <<exitVars, textVars>>

\* the selector of getEventDetailsFromPage (288): the first whose domain the
\* detail link includes
DescriptionSelector(websiteConfig, event) ==
  LET link == Get(event, "detailLink")
      selectors == websiteConfig.selectors.description
  IN  selectors[FirstMatch({i \in 1..Len(selectors) :
                              /\ link.kind = "string"
                              /\ Includes(link.val, selectors[i].domain)})]

\* the lineup links whose fetch has failed when the for-of loop (317-350)
\* has gone through the first n links
FailedAmong(links, n, selector) ==
  LineupLoop(SubSeq(links, 1, n), selector,
             [descriptions |-> <<>>, failed |-> 0]).failed

\* getEventDetailsFromPage with its page open, from one settled await to the
\* next. First goto, waitForSelector, $eval and the lineup $$eval (297-316).
\* Then one turn of the for-of loop for every lineup link (317-350): a link
\* whose fetch fails pushes its error to the errors of the site at once
\* (343-348). After the last turn, or without a lineup loop, the return: with
\* page.close() called and not awaited (360, 368), or out of the catch
\* without a close (372-382)
FetchDetailPage ==
  /\ pc = "fetching"
  /\ LET site == sites[siteIndex + 1]
         websiteConfig == band.websiteConfigs[ConfigOf(site)]
         event == site.events[index + 1]
         selector == DescriptionSelector(websiteConfig, event)
     IN  \E env \in IF visiting.started THEN {visiting.env}
                    ELSE {e \in FetchEnvs(websiteConfig) : e.nav # "no_page"} :
           LET at == IF visiting.started THEN visiting.at + 1 ELSE 0
               siteErrors == IF visiting.started THEN visiting.errors
                             ELSE site.errors
               looping == env.nav = "ok" /\ selector.lineup
               r == GetEventDetailsFromPage(band, websiteConfig, event,
                                            siteErrors, env)
           IN  IF looping /\ at < Len(env.links)
               THEN /\ visiting' = [started |-> TRUE, env |-> env, at |-> at,
                                    errors |-> siteErrors]
                    /\ sites' = [sites EXCEPT ![siteIndex + 1].errors =
                                   siteErrors
                                   \o Repeat(MsgLineup,
                                             FailedAmong(env.links, at,
                                                         selector))]
                    /\ UNCHANGED <<pc, siteIndex, index, errorCount, closing,
                                   lastFetch>>
               ELSE /\ visiting' = NoVisit
                    /\ sites' = [sites EXCEPT
                         ![siteIndex + 1].events[index + 1] = r.event,
                         ![siteIndex + 1].errors = r.errors]
                    /\ errorCount' = errorCount + r.errorCount
                    /\ closing' = closing + r.closeCalled
                    /\ lastFetch' = [called |-> TRUE, site |-> siteIndex,
                                     index |-> index, env |-> env,
                                     success |-> r.success,
                                     errorCount |-> r.errorCount,
                                     descriptions |-> r.descriptions]
                    /\ index' = index + 1
                    /\ IF index + 1 = end THEN NextSite
                       ELSE /\ pc' = "details"
                            /\ UNCHANGED siteIndex
  /\ UNCHANGED <<band, file, limit, previous, newEvents, offset, end,
                 savedHarvest, carried, fetched, pagesOpen, harvestVars>>
  /\ UNCHANGED <<exitVars, textVars>>

\* a page.close() that getEventDetailsFromPage called without await settles
\* while search goes on: the page is gone, or the close rejects, which
\* nothing handles
PageCloses ==
  /\ closing > 0
  /\ \E close \in {"ok", "reject"} :
       IF close = "reject"
       THEN Abort
       ELSE /\ pagesOpen' = pagesOpen - 1
            /\ closing' = closing - 1
            /\ UNCHANGED <<runVars, harvestVars, exitVars>>
  /\ UNCHANGED textVars

\* cleanUpEventsToWrite and determineNewEventsFound
DetermineNewEventsFound ==
  /\ pc = "resolved"
  /\ pc' = "determined"
  /\ newEvents' = FindNewEvents(CleanUpEventsToWrite(sites), previous)
  /\ UNCHANGED <<band, file, limit, previous, sites, siteIndex, offset, end,
                 index, errorCount, fetched, lastFetch, visiting, savedHarvest, carried,
                 pagesOpen, closing, harvestVars>>
  /\ UNCHANGED <<exitVars, textVars>>

\* the name, date and detailLink of every harvested event of every site
HarvestKeys(current) ==
  [s \in 1..Len(current) |->
    [url |-> current[s].url,
     events |-> [i \in 1..Len(current[s].events) |->
                  [name |-> Get(current[s].events[i], "name"),
                   date |-> Get(current[s].events[i], "date"),
                   detailLink |-> Get(current[s].events[i], "detailLink")]]]]

\* a state file that writeFile has opened and truncated: no text, which
\* JSON.parse rejects
EmptiedFile == [kind |-> "malformed", data |-> <<>>]

\* a saveEvents that search calls after updateRelevance, before the detail
\* pass
SaveEvents_BeforeDetails ==
  /\ pc = "carried"
  /\ \E opened \in BOOLEAN :
       IF opened
       THEN /\ pc' = "writing"
            /\ file' = EmptiedFile
            /\ savedHarvest' = <<>>
            /\ UNCHANGED lastWrite
       ELSE /\ pc' = "saved"
            /\ lastWrite' = "failed"
            /\ UNCHANGED <<file, savedHarvest>>
  /\ UNCHANGED <<band, limit, previous, sites, newEvents, siteIndex, offset,
                 end, index, errorCount, fetched, lastFetch, visiting, carried,
                 pagesOpen, closing, harvestVars, exitStatus, textVars>>

\* saveEvents(sitesToWrite, file) up to the point where writeFile has opened
\* the file, which empties it; a writeFile that cannot open the file (no such
\* directory) rejects, which saveEvents catches and prints, and leaves the
\* file as it was
SaveEvents ==
  /\ pc = "determined"
  /\ \E opened \in BOOLEAN :
       IF opened
       THEN /\ pc' = "writing"
            /\ file' = EmptiedFile
            /\ savedHarvest' = <<>>
            /\ UNCHANGED lastWrite
       ELSE /\ pc' = "saved"
            /\ lastWrite' = "failed"
            /\ UNCHANGED <<file, savedHarvest>>
  /\ UNCHANGED <<band, limit, previous, sites, newEvents, siteIndex, offset,
                 end, index, errorCount, fetched, lastFetch, visiting, carried,
                 pagesOpen, closing, harvestVars, exitStatus, textVars>>

\* a state file that holds a beginning of the text and not its end (the file
\* grew past a size limit, the disk filled up): JSON.parse rejects it, so no
\* data is read from it; whole is the number of sites whose text is complete
\* in the file, all of them when only the closing bracket is missing
TruncatedFile(n) == [kind |-> "truncated", data |-> <<>>, whole |-> n]

\* writeFile goes on with the file open: the text is written, or the write
\* fails (file too large, disk full) with nothing or a part of the text in
\* the file; saveEvents catches and prints the failure
WriteFile ==
  /\ pc = "writing"
  /\ pc' = "saved"
  /\ LET data == Stringify(CleanUpEventsToWrite(sites))
     IN  \E written \in BOOLEAN :
           /\ lastWrite' = IF written THEN "ok" ELSE "failed"
           /\ file' \in IF written THEN {[kind |-> "json", data |-> data]}
                        ELSE {file} \cup {TruncatedFile(n) :
                                            n \in 0..Len(data)}
           /\ savedHarvest' = IF written THEN HarvestKeys(sites)
                              ELSE savedHarvest
  /\ UNCHANGED <<band, limit, previous, sites, newEvents, siteIndex, offset,
                 end, index, errorCount, fetched, lastFetch, visiting, carried,
                 pagesOpen, closing, harvestVars, exitStatus, textVars>>

\* saveEvents has returned: search prints the relevant events and returns,
\* and the handler calls process.exit(0)
ExitSearch ==
  /\ pc = "saved"
  /\ pc' = "idle"
  /\ exitStatus' = <<0>>
  /\ RunReset
  /\ UNCHANGED <<band, file, savedHarvest, lastWrite, textVars>>

\* the lists of errors of the events a state file holds are shorter than n
ErrorsShorter(f, n) ==
  LET data == GetPreviousData(f)
  IN  \A s \in 1..Len(data) : \A i \in 1..Len(data[s].events) :
        LET errors == Get(data[s].events[i], "errors")
        IN  errors.kind = "array" => Len(errors.val) < n

----------------------------------------------------------------------------
(* Repeated runs of search for one band on one state file *)

\* neither findTextSnippets nor normalizeWhitespace is being called
NoCall ==
  /\ call = [text |-> <<>>, searchTerms |-> <<>>, contextLength |-> Num(0)]
  /\ fpc = "idle"
  /\ termAt = 0
  /\ searchFrom = 0
  /\ snippets = <<>>
  /\ input = Undefined
  /\ normalized = <<>>

\* nothing harvested and nothing resolved yet
Fresh ==
  /\ siteIndex = 0
  /\ offset = -1
  /\ end = 0
  /\ index = 0
  /\ errorCount = 0
  /\ pagesOpen = 0
  /\ closing = 0
  /\ fetched = {}
  /\ lastFetch = NoFetch
  /\ visiting = NoVisit
  /\ newEvents = <<>>
  /\ hpc = "idle"
  /\ dom = <<>>
  /\ depth = 0
  /\ discoveredEvents = <<>>
  /\ passErrors = <<>>
  /\ results = <<>>
  /\ reads = 0
  /\ clicks = 0
  /\ seenRows = {}
  /\ recorded = <<>>
  /\ control = "none"
  /\ lastWrite = "none"
  /\ exitStatus = <<>>

\* no search is running
AtRest ==
  /\ band = Band(<<SiteX>>)
  /\ pc = "idle"
  /\ file = [kind |-> "missing", data |-> <<>>]
  /\ limit = 0
  /\ previous = <<>>
  /\ sites = <<>>
  /\ savedHarvest = <<>>
  /\ carried = {}
  /\ Fresh

Init ==
  /\ band = Band(<<SiteX>>)
  /\ pc = "idle"
  /\ file \in {[kind |-> "missing", data |-> <<>>], MalformedFile}
  /\ limit = 0
  /\ previous = <<>>
  /\ sites = <<>>
  /\ savedHarvest = <<>>
  /\ carried = {}
  /\ Fresh
  /\ NoCall

\* search is run again and again, on state files whose events hold fewer
\* than MaxErrors errors each (a run adds at most one to an event)
Next ==
  \/ ErrorsShorter(file, MaxErrors) /\ StartSearch
  \/ BeginHarvest
  \/ LoadNextPage
  \/ UpdateRelevanceStep
  \/ BeginSite
  \/ DetailStep
  \/ FetchDetailPage
  \/ PageCloses
  \/ DetermineNewEventsFound
  \/ SaveEvents
  \/ WriteFile
  \/ ExitSearch

Spec == Init /\ [][Next]_vars

----------------------------------------------------------------------------
(* One harvest of a site with a load-more control *)

InitHarvest ==
  /\ band \in {Band(<<SiteDc9>>), Band(<<SiteRamsHead>>)}
  /\ pc = "loaded"
  /\ file = [kind |-> "missing", data |-> <<>>]
  /\ limit = 0
  /\ previous = <<>>
  /\ sites = <<>>
  /\ savedHarvest = <<>>
  /\ carried = {}
  /\ Fresh
  /\ NoCall

NextHarvest ==
  \/ BeginHarvest
  \/ LoadNextPage

\* every await of loadNextPage settles: the waits carry a timeout
SpecHarvest == InitHarvest /\ [][NextHarvest]_vars /\ WF_vars(LoadNextPage)

----------------------------------------------------------------------------
(* One harvest of a listing page whose rows differ in whitespace *)

InitRows ==
  /\ band = Band(<<SiteW>>)
  /\ pc = "loaded"
  /\ file = [kind |-> "missing", data |-> <<>>]
  /\ limit = 0
  /\ previous = <<>>
  /\ sites = <<>>
  /\ savedHarvest = <<>>
  /\ carried = {}
  /\ Fresh
  /\ NoCall

SpecRows == InitRows /\ [][NextHarvest]_vars

----------------------------------------------------------------------------
(* One run after the list of sites of the band has changed *)

\* what an earlier run wrote for a site: the first rows of its listing, no
\* detail resolved
WrittenSite(site, n) ==
  Stringify(CleanUpEventsToWrite(
    <<[url |-> site.url,
       events |-> ReadPage(SubSeq(Listing(site), 1, n), site.selectors, 0),
       errors |-> <<>>]>>))[1]

\* the state files of earlier runs with none, one or both of the sites
PreviousFiles ==
  {<<>>, <<WrittenSite(SiteX, 2)>>, <<WrittenSite(SiteComet, 1)>>,
   <<WrittenSite(SiteX, 2), WrittenSite(SiteComet, 1)>>,
   <<[WrittenSite(SiteComet, 1) EXCEPT
        !.events[1] = Put(@, "relevance", Arr(<<>>))]>>}

\* search has read the previous data and launched the browser
InitConfig ==
  /\ band \in {Band(<<SiteX>>), Band(<<SiteComet>>), Band(<<SiteX, SiteComet>>)}
  /\ pc = "loaded"
  /\ \E data \in PreviousFiles : file = [kind |-> "json", data |-> data]
  /\ limit \in 0..MaxLimit
  /\ previous = GetPreviousData(file)
  /\ sites = <<>>
  /\ savedHarvest = <<>>
  /\ carried = {}
  /\ Fresh
  /\ NoCall

NextConfig ==
  \/ BeginHarvest
  \/ LoadNextPage
  \/ UpdateRelevanceStep
  \/ BeginSite
  \/ DetailStep
  \/ FetchDetailPage
  \/ PageCloses
  \/ DetermineNewEventsFound
  \/ SaveEvents
  \/ WriteFile
  \/ ExitSearch

SpecConfig == InitConfig /\ [][NextConfig]_vars

----------------------------------------------------------------------------
(* One detail pass that resumes the work of earlier runs *)

\* row i of the listing page of a site
ResumedRow(site, i) ==
  Row(Str(<<"E", ToString(i)>>), Str(<<"M", "a", "y", " ", ToString(i)>>),
      Str(site.selectors.description[1].domain \o <<"/", ToString(i)>>))

\* what the previous run, having harvested rows 1..n, wrote: the rows that
\* are "new" were not listed then; a "relevant" one got a relevance, a
\* "failed" one an error
Written(site, n, kinds) ==
  LET Keep(i) == kinds[i] # "new"
      kept == SelectSeq([i \in 1..n |-> i], Keep)
      harvested == ReadPage([j \in 1..Len(kept) |-> ResumedRow(site, kept[j])],
                            site.selectors, 0)
      resolved ==
        [j \in 1..Len(kept) |->
          IF kinds[kept[j]] = "relevant"
          THEN Put(harvested[j], "relevance",
                   DetermineShowRelevance(Genres, TextSoul.val))
          ELSE Put(harvested[j], "errors",
                   PushError(Get(harvested[j], "errors"), MsgThrown))]
  IN  Stringify(CleanUpEventsToWrite(
        <<[url |-> site.url, events |-> resolved, errors |-> <<>>]>>))

\* the state of a run of search after updateRelevance, rows 1..n harvested
Resumed(site, n, kinds, lim) ==
  LET harvested == <<[url |-> site.url,
                      events |-> ReadPage([i \in 1..n |-> ResumedRow(site, i)],
                                          site.selectors, 0),
                      errors |-> <<>>]>>
      written == Written(site, n, kinds)
  IN  /\ band = Band(<<site>>)
      /\ pc = "carried"
      /\ file = [kind |-> "json", data |-> written]
      /\ limit = lim
      /\ previous = GetPreviousData(file)
      /\ sites = UpdateRelevance(harvested, previous)
      /\ savedHarvest = HarvestKeys(written)
      /\ carried = Matched(harvested, previous)
      /\ Fresh
      /\ NoCall

InitDetails ==
  \E n \in 0..MaxResumed, lim \in 0..MaxLimit :
    \E kinds \in [1..n -> {"relevant", "failed", "new"}] :
      Resumed(SiteX, n, kinds, lim)

NextDetails ==
  \/ BeginSite
  \/ DetailStep
  \/ FetchDetailPage
  \/ PageCloses

SpecDetails == InitDetails /\ [][NextDetails]_vars

----------------------------------------------------------------------------
(* One detail fetch of a site with artist lineups *)

InitFetch ==
  \E n \in 0..1, lim \in 0..MaxLimit :
    \E kinds \in [1..n -> {"relevant", "failed", "new"}] :
      Resumed(SiteDc9, n, kinds, lim)

SpecFetch == InitFetch /\ [][NextDetails]_vars

----------------------------------------------------------------------------
(* One detail pass over events whose detail links differ *)

\* the state of a first run of search after updateRelevance
InitLinks ==
  /\ band = Band(<<SiteX>>)
  /\ pc = "carried"
  /\ file = [kind |-> "missing", data |-> <<>>]
  /\ limit \in 0..MaxLimit
  /\ previous = <<>>
  /\ \E shown \in SubLists(ListingLinks) :
       sites = <<[url |-> SiteX.url,
                  events |-> ReadPage(shown, SiteX.selectors, 0),
                  errors |-> <<>>]>>
  /\ savedHarvest = <<>>
  /\ carried = {}
  /\ Fresh
  /\ NoCall

SpecLinks == InitLinks /\ [][NextDetails]_vars

----------------------------------------------------------------------------
(* Runs of search repeated on one state file, every run with a limit of at  *)
(* least 1, a harvest that returns what the run before harvested, and a     *)
(* write that succeeds                                                      *)

InitRuns ==
  /\ band = Band(<<SiteLinks>>)
  /\ pc = "idle"
  /\ file = [kind |-> "missing", data |-> <<>>]
  /\ limit = 0
  /\ previous = <<>>
  /\ sites = <<>>
  /\ savedHarvest = <<>>
  /\ carried = {}
  /\ Fresh
  /\ NoCall

\* the harvest the step ends returns what the run before harvested
SameHarvest ==
  pc' = "harvested" /\ savedHarvest # <<>>
    => HarvestKeys(sites') = savedHarvest

\* the listing page shows the rows the run before harvested
SameListing ==
  (hpc' = "pass" /\ savedHarvest # <<>>) =>
    (savedHarvest[1].events # <<>> =>
       HarvestKeys(<<[url |-> CurrentConfig.url,
                      events |-> ReadPage(dom', CurrentConfig.selectors, 0)]>>)
         = savedHarvest)

NextRuns ==
  \/ ErrorsShorter(file, MaxErrors) /\ StartSearch /\ pc' = "loaded"
       /\ limit' >= 1
  \/ BeginHarvest /\ SameHarvest /\ SameListing /\ pc' # "idle"
  \/ LoadNextPage /\ SameHarvest /\ pc' # "idle"
  \/ UpdateRelevanceStep
  \/ BeginSite
  \/ DetailStep
  \/ FetchDetailPage
  \/ PageCloses /\ pc' # "idle"
  \/ DetermineNewEventsFound
  \/ SaveEvents /\ pc' = "writing"
  \/ WriteFile /\ lastWrite' = "ok"
  \/ ExitSearch

\* the search is run again and again, and every await of a run settles
SpecRuns == InitRuns /\ [][NextRuns]_vars /\ WF_vars(NextRuns)

----------------------------------------------------------------------------
(* One run of search for a band whose config names sites by identifier *)

\* the site registry, by identifier
Registry == [unionStage |-> SiteX, commetPingPong |-> SiteComet]

\* the identifiers a band config may name: two of the registry and one the
\* registry has no entry for
SiteIds == {"unionStage", "commetPingPong", "blackCat"}

\* configFactory(band): the registry entries of band.sites, the identifiers
\* without an entry filtered out
ConfigFactory(base) ==
  LET Known(id) == id \in DOMAIN Registry
      known == SelectSeq(base.sites, Known)
  IN  [genres |-> base.genres, filter |-> base.filter, sites |-> base.sites,
       websiteConfigs |-> [i \in 1..Len(known) |-> Registry[known[i]]]]

\* search has been called with the config of a band that names one or two
\* sites, has found no state file and has launched the browser
InitRegistry ==
  /\ \E a \in SiteIds, b \in SiteIds \cup {"none"} :
       /\ a # b
       /\ band = ConfigFactory([genres |-> Genres, filter |-> BandFilter,
                                sites |-> IF b = "none" THEN <<a>>
                                          ELSE <<a, b>>])
  /\ pc = IF Len(band.websiteConfigs) = 0 THEN "harvested" ELSE "loaded"
  /\ file = [kind |-> "missing", data |-> <<>>]
  /\ limit \in 0..MaxLimit
  /\ previous = <<>>
  /\ sites = <<>>
  /\ savedHarvest = <<>>
  /\ carried = {}
  /\ Fresh
  /\ NoCall

SpecRegistry == InitRegistry /\ [][NextConfig]_vars

----------------------------------------------------------------------------
(* One call of findTextSnippets *)

\* the longest text of a call
MaxTextLen == 3
\* the most search terms of a call
MaxTerms == 2
\* the largest contextLength of a call
MaxContext == 1

\* the characters of the texts
TextChars == {"a", " ", "\n"}

\* the texts of at most n characters
Texts(n) == UNION {[1..k -> TextChars] : k \in 0..n}

\* the search terms: the empty string, plain words, a phrase, and terms that
\* begin or end with whitespace
SearchTerms ==
  {<<>>, <<"a">>, <<"a", "a">>, <<"a", " ", "a">>, <<" ", "a">>, <<"a", "\n">>}

\* the lists of at most n search terms
TermLists(n) == UNION {[1..k -> SearchTerms] : k \in 0..n}

\* the third argument of a call: a number, or undefined when the caller
\* passes none (determineShowRelevance)
ContextLengths == {Num(c) : c \in 0..MaxContext} \cup {Undefined}

\* the snippets the memory of the process holds: more than any call pushes
\* whose loops advance through the text
MaxSnippets == MaxTerms * (MaxTextLen + 1) + 1

\* findTextSnippets is called
InitText ==
  /\ AtRest
  /\ \E t \in Texts(MaxTextLen), l \in TermLists(MaxTerms),
        c \in ContextLengths :
       call = [text |-> t, searchTerms |-> l, contextLength |-> c]
  /\ fpc = "loop"
  /\ termAt = 0
  /\ searchFrom = 0
  /\ snippets = <<>>
  /\ input = Undefined
  /\ normalized = <<>>

\* a loop of findTextSnippets that resumes the scan one character after the
\* start of the match
SnippetStep_Overlapping ==
  /\ fpc = "loop"
  /\ IF termAt = Len(call.searchTerms)
     THEN /\ fpc' = "done"
          /\ UNCHANGED <<termAt, searchFrom, snippets>>
     ELSE LET term == call.searchTerms[termAt + 1]
              startIndex == IndexOf(call.text, term, searchFrom)
          IN  IF startIndex = -1
              THEN /\ termAt' = termAt + 1
                   /\ searchFrom' = 0
                   /\ UNCHANGED <<fpc, snippets>>
              ELSE IF Len(snippets) >= MaxSnippets
              THEN /\ fpc' = "exhausted"
                   /\ UNCHANGED <<termAt, searchFrom, snippets>>
              ELSE /\ snippets' =
                        Append(snippets,
                               Snippet(call.text, term, startIndex,
                                       call.contextLength))
                   /\ searchFrom' = startIndex + 1
                   /\ UNCHANGED <<fpc, termAt>>
  /\ UNCHANGED <<call, runVars, pagesOpen, closing, harvestVars, exitVars, input,
                 normalized>>

\* one evaluation of the while condition of findTextSnippets for the current
\* term, with the loop body when the term is found; past the last term the
\* function returns
SnippetStep ==
  /\ fpc = "loop"
  /\ IF termAt = Len(call.searchTerms)
     THEN /\ fpc' = "done"
          /\ UNCHANGED <<termAt, searchFrom, snippets>>
     ELSE LET term == call.searchTerms[termAt + 1]
              startIndex == IndexOf(call.text, term, searchFrom)
          IN  IF startIndex = -1
              THEN \* the next term of the for-of loop, let startIndex = 0
                   /\ termAt' = termAt + 1
                   /\ searchFrom' = 0
                   /\ UNCHANGED <<fpc, snippets>>
              ELSE IF Len(snippets) >= MaxSnippets
              THEN \* snippets.push on an array that fills the memory
                   /\ fpc' = "exhausted"
                   /\ UNCHANGED <<termAt, searchFrom, snippets>>
              ELSE /\ snippets' =
                        Append(snippets,
                               Snippet(call.text, term, startIndex,
                                       call.contextLength))
                   /\ searchFrom' = startIndex + Len(term)
                   /\ UNCHANGED <<fpc, termAt>>
  /\ UNCHANGED <<call, runVars, pagesOpen, closing, harvestVars, exitVars, input,
                 normalized>>

NextText == SnippetStep

SpecText == InitText /\ [][NextText]_vars /\ WF_vars(SnippetStep)

----------------------------------------------------------------------------
(* One call of findTextSnippets on a text of letters, dots and newlines, the *)
(* terms not empty                                                          *)

\* the longest text of such a call
MaxScanLen == 4

\* the characters of the texts
ScanChars == {"a", ".", "\n"}

\* the search terms
ScanTerms == {<<"a">>, <<"a", "a">>, <<".">>}

\* findTextSnippets is called
InitScan ==
  /\ AtRest
  /\ \E t \in UNION {[1..k -> ScanChars] : k \in 0..MaxScanLen},
        l \in UNION {[1..k -> ScanTerms] : k \in 0..MaxTerms},
        c \in 0..MaxContext :
       call = [text |-> t, searchTerms |-> l, contextLength |-> Num(c)]
  /\ fpc = "loop"
  /\ termAt = 0
  /\ searchFrom = 0
  /\ snippets = <<>>
  /\ input = Undefined
  /\ normalized = <<>>

SpecScan == InitScan /\ [][NextText]_vars /\ WF_vars(SnippetStep)

----------------------------------------------------------------------------
(* Calls of normalizeWhitespace *)

\* the longest input of a call
MaxInputLen == 4

\* the characters of the inputs
InputChars == {"a", " ", "\n", "\t"}

\* the inputs: null, undefined and the strings of at most n characters
Inputs(n) ==
  {Null, Undefined} \cup {Str(s) : s \in UNION {[1..k -> InputChars] : k \in 0..n}}

\* normalizeWhitespace is about to be called
InitNormalize ==
  /\ AtRest
  /\ call = [text |-> <<>>, searchTerms |-> <<>>, contextLength |-> Num(0)]
  /\ fpc = "idle"
  /\ termAt = 0
  /\ searchFrom = 0
  /\ snippets = <<>>
  /\ input \in Inputs(MaxInputLen)
  /\ normalized = <<>>

\* normalizeWhitespace(input), and then normalizeWhitespace of its result
NormalizeStep ==
  /\ Len(normalized) < 2
  /\ normalized' =
       Append(normalized,
              NormalizeWhitespace(IF normalized = <<>> THEN input
                                  ELSE normalized[Len(normalized)]))
  /\ UNCHANGED <<runVars, pagesOpen, closing, harvestVars, exitVars, call, fpc, termAt,
                 searchFrom, snippets, input>>

NextNormalize == NormalizeStep

SpecNormalize == InitNormalize /\ [][NextNormalize]_vars

----------------------------------------------------------------------------
(* Properties *)

\* the previous event updateRelevance and findNewEvents match an event with:
\* its position in prevEvents, 0 when there is none
MatchIn(prevEvents, event) ==
  FirstMatch({k \in 1..Len(prevEvents) : SameEvent(prevEvents[k], event)})

\* the events of site s (1-based) as the run writes them
WrittenEvents(s) == CleanUpEventsToWrite(sites)[s].events

\* neither relevance nor errors is set
Unresolved(event) ==
  IsNullish(Get(event, "relevance")) /\ IsNullish(Get(event, "errors"))

\* errors is a non-empty list
HasErrors(event) ==
  Get(event, "errors").kind = "array" /\ Get(event, "errors").val # <<>>

\* C1: across two consecutive runs on the same state file, the first one
\* having written it, an event the second run harvests for a site with the
\* name, date and detailLink of an event the first run harvested for that site
\* is absent from the new events the second run reports.
C1_ReportedOnce ==
  pc = "determined" =>
    \A s \in 1..Len(sites) : \A h \in 1..Len(savedHarvest) :
      savedHarvest[h].url = sites[s].url =>
        \A i \in 1..Len(sites[s].events) :
          MatchIn(savedHarvest[h].events, sites[s].events[i]) # 0
            => MatchIn(newEvents[s].events, WrittenEvents(s)[i]) = 0

\* a second run that harvests an event of the first run again and a new one
C1_Witness ==
  /\ pc = "determined"
  /\ Len(sites) = 1
  /\ Len(savedHarvest) = 1
  /\ savedHarvest[1].url = sites[1].url
  /\ \E i \in 1..Len(sites[1].events) :
       /\ MatchIn(savedHarvest[1].events, sites[1].events[i]) # 0
       /\ Truthy(Get(sites[1].events[i], "name"))
  /\ Len(newEvents[1].events) = 1

\* C2: reconciliation of a current site against the previous site of the same
\* url: a current event with a previous event of equal name, date and
\* detailLink gets the relevance and errors of that previous event, a current
\* event without one keeps its relevance unset, and the new events of the site
\* are exactly the current events without one, in harvest order.
C2_Reconciliation ==
  \A s \in 1..Len(sites) :
    LET p == PreviousSiteOf(sites[s], previous)
        events == sites[s].events
        unmatched == SelectSeq([i \in 1..Len(events) |-> i],
                               LAMBDA i : MatchIn(previous[p].events,
                                                  events[i]) = 0)
    IN  p # 0 =>
          /\ pc = "carried" /\ siteIndex = 0 =>
               \A i \in 1..Len(events) :
                 LET k == MatchIn(previous[p].events, events[i])
                 IN  IF k = 0 THEN IsNullish(Get(events[i], "relevance"))
                     ELSE /\ Get(events[i], "relevance")
                               = Get(previous[p].events[k], "relevance")
                          /\ Get(events[i], "errors")
                               = Get(previous[p].events[k], "errors")
          /\ pc = "determined" =>
               newEvents[s].events
                 = [j \in 1..Len(unmatched) |-> WrittenEvents(s)[unmatched[j]]]

\* C3: the detail pass starts at the first event whose relevance and errors
\* are both unset, and fetches no event before it.
C3_ResumeOffset ==
  pc \in {"details", "fetching", "resolved"} /\ Len(sites) = 1 =>
    LET events == sites[1].events
    IN  /\ \A j \in 1..Len(events) :
             (offset = -1 \/ j - 1 < offset) => ~Unresolved(events[j])
        /\ pc = "details" /\ index = offset => Unresolved(events[offset + 1])
        /\ pc \in {"details", "fetching"} => offset >= 0 /\ index >= offset
        /\ \A f \in fetched : offset >= 0 /\ f[2] >= offset

\* events 0..2 with relevance, event 3 with an error, event 4 unresolved:
\* the pass started at 4 and fetched event 4 alone
C3_Witness ==
  /\ pc = "resolved"
  /\ Len(sites) = 1
  /\ Len(sites[1].events) = 5
  /\ \A j \in 1..3 : Truthy(Get(sites[1].events[j], "relevance"))
  /\ HasErrors(sites[1].events[4])
  /\ IsNullish(Get(sites[1].events[4], "relevance"))
  /\ offset = 4
  /\ fetched = {<<0, 4>>}

\* C4: whatever the load-more control and the page do, loadNextPage called
\* with depth 0 reads the page at most maxDepth + 1 times and then returns.
C4_HarvestTerminates ==
  /\ [](reads <= MaxDepth + 1)
  /\ (hpc = "pass") ~> (hpc = "idle")

\* a control that stays visible and clickable while no new row ever appears:
\* the harvest returned after maxDepth clicks and maxDepth + 1 reads
C4_Witness ==
  /\ pc = "harvested"
  /\ hpc = "idle"
  /\ reads = MaxDepth + 1
  /\ clicks = MaxDepth
  /\ Cardinality(seenRows) = 1

\* C5: in one run the detail pages opened for a two-page site are at most
\* limit, whatever the number of unresolved events.
C5_FetchesWithinLimit ==
  \A s \in 1..Len(sites) :
    IsTwoPageSiteSelector(band.websiteConfigs[ConfigOf(sites[s])].selectors)
      => Cardinality({f \in fetched : f[1] = s - 1}) <= limit

\* a pass that used up its limit and leaves unresolved events behind
C5_Witness ==
  /\ pc = "resolved"
  /\ limit = MaxLimit
  /\ Cardinality(fetched) = limit
  /\ Cardinality({j \in 1..Len(sites[1].events) :
                    Unresolved(sites[1].events[j])}) >= 2

\* C6: an event whose detail resolution ended with an event-level failure in
\* one run is not fetched in a later run that harvests and matches it again,
\* wherever it sits relative to the resume offset.
C6_FailedNotRetried ==
  \A f \in fetched :
    LET site == sites[f[1] + 1]
        p == PreviousSiteOf(site, previous)
        k == MatchIn(previous[p].events, site.events[f[2] + 1])
    IN  ~ (p # 0 /\ k # 0 /\ HasErrors(previous[p].events[k]))

\* C7: an event inside the window of the detail pass whose name matches an
\* entry of the exclusion filter gets relevance = [] without a page opened
\* for it, and the next run does not take it for the resume offset.
C7_FilteredWithoutFetch ==
  pc \in {"resolved", "determined"} /\ Len(sites) = 1 =>
    \A i \in 1..Len(sites[1].events) :
      LET event == sites[1].events[i]
          p == PreviousSiteOf(sites[1], previous)
          k == MatchIn(previous[p].events, event)
      IN  MatchesFilter(event) =>
            /\ (offset # -1 /\ offset <= i - 1 /\ i - 1 < end) =>
                 /\ Get(event, "relevance") = Arr(<<>>)
                 /\ <<0, i - 1>> \notin fetched
            /\ (p # 0 /\ k # 0
                  /\ Get(previous[p].events[k], "relevance") = Arr(<<>>)) =>
                 offset # i - 1

\* the run after the one that filtered an open mic night: the event is
\* carried with relevance [], the pass starts behind it and fetches another
C7_Witness ==
  /\ pc = "determined"
  /\ Len(sites) = 1
  /\ Len(sites[1].events) >= 2
  /\ MatchesFilter(sites[1].events[1])
  /\ <<0, 0>> \in carried
  /\ Get(sites[1].events[1], "relevance") = Arr(<<>>)
  /\ offset = 1
  /\ fetched = {<<0, 1>>}

\* the occurrences of message in a list of errors
CountOf(errors, message) ==
  Cardinality({i \in 1..Len(errors) : errors[i] = message})

\* C8: a lineup link that fails stops neither the remaining links nor the
\* event: the descriptions of the other links are collected, the relevance
\* of the event is computed from the combined text, and one error is counted
\* and recorded per link that failed.
C8_LineupFailureIsolated ==
  lastFetch.called /\ lastFetch.env.nav = "ok" =>
    LET links == lastFetch.env.links
        site == sites[lastFetch.site + 1]
        event == site.events[lastFetch.index + 1]
        failed == {i \in 1..Len(links) :
                     Truthy(links[i].href) /\ links[i].nav = "throw"}
        read == SelectSeq(links, LAMBDA l : /\ Truthy(l.href)
                                            /\ l.nav = "ok"
                                            /\ Trim(l.text.val) # <<>>)
        own == IF Trim(lastFetch.env.description.val) # <<>>
               THEN <<Trim(lastFetch.env.description.val)>> ELSE <<>>
        texts == own \o [j \in 1..Len(read) |-> Trim(read[j].text.val)]
    IN  /\ CountOf(site.errors, MsgLineup) = Cardinality(failed)
        /\ texts # <<>> =>
             /\ lastFetch.success
             /\ lastFetch.descriptions = texts
             /\ lastFetch.errorCount = Cardinality(failed)
             /\ Get(event, "relevance")
                  = DetermineShowRelevance(band.genres, Join(texts, <<"\n">>))

\* a lineup of three links of which the second fails
C8_Witness ==
  /\ lastFetch.called
  /\ lastFetch.env.nav = "ok"
  /\ lastFetch.env.description = TextNone
  /\ lastFetch.env.links = <<LinkOk(TextSoul), LinkThrow, LinkOk(TextSoul)>>
  /\ lastFetch.success
  /\ lastFetch.errorCount = 1
  /\ Len(lastFetch.descriptions) = 2

\* C9: every page a harvest or a detail fetch opens is closed on every exit
\* path of it: no page stays open once the operation has returned, that is
\* while neither a harvest (hpc = "pass") nor a detail fetch (pc = "fetching")
\* is under way.
C9_PagesReleased == (hpc = "idle" /\ pc # "fetching") => pagesOpen = 0

\* C10: the events a harvest returns are de-duplicated: no two of them have
\* the same name and date, whatever the page does across load-more cycles.
C10_HarvestDeduplicated ==
  pc = "harvested" =>
    \A s \in 1..Len(sites) :
      \A i, j \in 1..Len(sites[s].events) :
        i # j => GetEventId(sites[s].events[i]) # GetEventId(sites[s].events[j])

\* term is a substring of text
Occurs(text, term) == \E i \in 0..Len(text) : OccursAt(text, term, i)

\* the search terms of the call, as a set
CallTerms == {call.searchTerms[k] : k \in 1..Len(call.searchTerms)}

\* C11: a call of findTextSnippets that returns, returns the empty list of
\* snippets exactly when no term of its list is a substring of its text.
C11_EmptyIffNoTermOccurs ==
  fpc = "done" =>
    (snippets = <<>> <=> \A term \in CallTerms : ~Occurs(call.text, term))

\* a call with two terms and a text, none of the terms in the text
C11_Witness ==
  /\ fpc = "done"
  /\ snippets = <<>>
  /\ Len(call.searchTerms) = 2
  /\ call.text # <<>>

\* C12: every snippet a call of findTextSnippets returns has one of
\* the terms of the call as a substring.
C12_SnippetsContainTerm ==
  fpc = "done" =>
    \A i \in 1..Len(snippets) :
      \E term \in CallTerms : Occurs(snippets[i], term)

\* C13: every call of findTextSnippets returns, whatever its text and its
\* terms are (the empty text, the empty list of terms and the empty term
\* included): no call keeps pushing snippets until the memory is exhausted.
C13_CallReturns == fpc # "exhausted"

\* two texts of an element are equal up to whitespace: both elements are
\* missing, or both texts have the same whitespace-normalized form
EqualUpToWhitespace(a, b) ==
  /\ a.kind = b.kind
  /\ a.kind = "string" => NormalizeWhitespace(a) = NormalizeWhitespace(b)

\* C14: two events harvested from rows whose names are equal up to whitespace
\* and whose dates are equal up to whitespace have the same getEventId.
C14_EventIdIgnoresWhitespace ==
  (pc = "harvested" /\ Len(sites[1].events) = Len(dom)) =>
    \A i, j \in 1..Len(dom) :
      (EqualUpToWhitespace(dom[i].name, dom[j].name)
         /\ EqualUpToWhitespace(dom[i].date, dom[j].date))
        => GetEventId(sites[1].events[i]) = GetEventId(sites[1].events[j])

\* a harvest of two rows with different texts that are equal up to whitespace
C14_Witness ==
  /\ pc = "harvested"
  /\ Len(sites[1].events) = Len(dom)
  /\ \E i, j \in 1..Len(dom) :
       /\ dom[i].name.kind = "string"
       /\ dom[i].name # dom[j].name
       /\ dom[i].date # dom[j].date
       /\ EqualUpToWhitespace(dom[i].name, dom[j].name)
       /\ EqualUpToWhitespace(dom[i].date, dom[j].date)

\* C15: right after updateRelevance(sites, previous), a second updateRelevance
\* with the same previous data leaves every event as it is (the same carried
\* relevance and errors), and findNewEvents gives the same new events for the
\* events updated once and updated twice.
C15_ReconciliationIdempotent ==
  (pc = "carried" /\ siteIndex = 0) =>
    LET again == UpdateRelevance(sites, previous)
    IN  /\ again = sites
        /\ FindNewEvents(CleanUpEventsToWrite(again), previous)
             = FindNewEvents(CleanUpEventsToWrite(sites), previous)

\* a run that carries errors to one event and relevance to another, and
\* harvests an event that has no match
C15_Witness ==
  /\ pc = "carried"
  /\ siteIndex = 0
  /\ \E i, j, k \in 1..Len(sites[1].events) :
       /\ <<0, i - 1>> \in carried
       /\ HasErrors(sites[1].events[i])
       /\ <<0, j - 1>> \in carried
       /\ Get(sites[1].events[j], "relevance").kind = "array"
       /\ <<0, k - 1>> \notin carried

\* s is a string in whitespace-normalized form: its only whitespace is single
\* spaces between other characters
IsNormalizedString(v) ==
  /\ v.kind = "string"
  /\ \A i \in 1..Len(v.val) :
       IsWhitespace(v.val[i]) =>
         /\ v.val[i] = " "
         /\ 1 < i
         /\ i < Len(v.val)
         /\ ~IsWhitespace(v.val[i + 1])

\* the events of the state file
FileEvents ==
  UNION {Range(file.data[s].events) : s \in 1..Len(file.data)}

\* C16: in a state file written by search, every event has no description
\* field, a name and a date that are whitespace-normalized strings, and a
\* relevance that is absent, null or a list.
C16_WrittenEventsAreClean ==
  file.kind = "json" =>
    \A event \in FileEvents :
      /\ "description" \notin DOMAIN event
      /\ IsNormalizedString(Get(event, "name"))
      /\ IsNormalizedString(Get(event, "date"))
      /\ Get(event, "relevance").kind \in {"undefined", "null", "array"}

\* a written file with an event harvested without name element, an event with
\* snippets and an event whose relevance is still null
C16_Witness ==
  /\ file.kind = "json"
  /\ \E a, b, c \in FileEvents :
       /\ Get(a, "name") = Str(<<>>)
       /\ Get(b, "relevance").kind = "array"
       /\ Get(b, "relevance").val # <<>>
       /\ Get(c, "relevance").kind = "null"

\* C17: a run that starts on a missing or a malformed state file gets the
\* empty previous data from getPreviousData, carries nothing, and reports
\* every event it harvested as new.  (Until saveEvents is called the state
\* file is the one the run started on.)
C17_UnreadableFileIsFirstRun ==
  (pc \notin {"idle", "loaded", "writing", "saved"}
     /\ file.kind \in {"missing", "malformed", "truncated"}) =>
    /\ previous = <<>>
    /\ pc \in {"carried", "details", "fetching", "resolved", "determined"}
         => carried = {}
    /\ pc = "determined" => newEvents = CleanUpEventsToWrite(sites)

\* a run on a malformed file that reports two harvested events as new
C17_Witness ==
  /\ pc = "determined"
  /\ file.kind = "malformed"
  /\ Len(sites[1].events) >= 2
  /\ newEvents = CleanUpEventsToWrite(sites)

\* C18: a run whose write of the state file failed ends with a process exit
\* status other than 0.
C18_WriteFailureExitsNonZero ==
  (pc = "idle" /\ lastWrite = "failed") => exitStatus \notin {<<>>, <<0>>}

\* the urls of the sites of the band
ConfigUrls == {band.websiteConfigs[c].url : c \in 1..Len(band.websiteConfigs)}

\* C19: a harvested site that has no entry in the previous data has all its
\* harvested events among the new events; a site of the previous data that
\* the band does not list any more is absent from the new events and from the
\* state file the run writes, and no error is recorded for it.
C19_SitesAddedAndRemoved ==
  /\ pc = "determined" =>
       /\ \A s \in 1..Len(sites) :
            PreviousSiteOf(sites[s], previous) = 0
              => newEvents[s].events = WrittenEvents(s)
       /\ \A p \in 1..Len(previous) :
            previous[p].url \notin ConfigUrls =>
              /\ \A s \in 1..Len(newEvents) : newEvents[s].url # previous[p].url
              /\ \A s \in 1..Len(sites) :
                   /\ sites[s].url # previous[p].url
                   /\ MsgNoConfig \notin Range(sites[s].errors)
  /\ (pc = "idle" /\ lastWrite = "ok") =>
       \A s \in 1..Len(file.data) : file.data[s].url \in ConfigUrls

\* a run for a band that lists a site the previous data does not know, with
\* previous data of a site the band lists no more
C19_Witness ==
  /\ pc = "determined"
  /\ \E p \in 1..Len(previous) : previous[p].url \notin ConfigUrls
  /\ \E s \in 1..Len(sites) :
       /\ PreviousSiteOf(sites[s], previous) = 0
       /\ Len(sites[s].events) >= 2
       /\ newEvents[s].events = WrittenEvents(s)

\* C20: once the wait after a click on load-more has timed out, the harvest
\* makes no further pass: it reads no further page and clicks no more.
C20_TimeoutStopsHarvest ==
  (MsgLoader \in Range(recorded) \/ MsgMoreEvents \in Range(recorded))
    => hpc # "pass"

\* C21: a harvest that ends with a site-level failure, in whatever pass, still
\* gives a result for the site, whose errors hold the failure and whose
\* events hold the rows read before the failure.
C21_FailedHarvestKeepsRows ==
  pc = "harvested" =>
    /\ Len(sites) = Len(band.websiteConfigs)
    /\ \A s \in 1..Len(sites) :
         MsgHarvest \in Range(sites[s].errors) =>
           \A id \in seenRows :
             \E i \in 1..Len(sites[s].events) :
               GetEventId(sites[s].events[i]) = id

\* C22: the errors loadNextPage returns hold every error that one of its
\* passes recorded.
C22_HarvestErrorsKept ==
  (pc = "harvested" /\ MsgHarvest \notin Range(sites[1].errors)) =>
    \A m \in Range(recorded) : m \in Range(passErrors)

\* the event the last call of getEventDetailsFromPage was made for
LastFetched == sites[lastFetch.site + 1].events[lastFetch.index + 1]

\* C23: an event whose detail fetch failed, for whatever reason (no
\* description selector for its detailLink, a navigation or wait that throws,
\* no description text), has a non-empty errors list and no relevance.
C23_FailedFetchMarksEvent ==
  (lastFetch.called /\ ~lastFetch.success) =>
    /\ HasErrors(LastFetched)
    /\ IsNullish(Get(LastFetched, "relevance"))

\* the page of a detail fetch gives a description: the description element
\* has text, or a lineup link with an href loads and its artist description
\* has text
Obtained(env) ==
  \/ Trim(env.description.val) # <<>>
  \/ \E i \in 1..Len(env.links) :
       /\ env.links[i].href.kind = "string"
       /\ env.links[i].href.val # <<>>
       /\ env.links[i].nav = "ok"
       /\ Trim(env.links[i].text.val) # <<>>

\* C24: a call of getEventDetailsFromPage whose detail page loaded sets the
\* relevance of the event to a list and leaves its errors alone when a
\* description was obtained, and otherwise leaves its relevance alone (unset)
\* and appends one error to the event.
C24_DescriptionsDecideRelevance ==
  [][(lastFetch' # lastFetch /\ lastFetch'.called /\ lastFetch'.env.nav = "ok")
       => LET before == sites[lastFetch'.site + 1].events[lastFetch'.index + 1]
              after == sites'[lastFetch'.site + 1].events[lastFetch'.index + 1]
          IN  IF Obtained(lastFetch'.env)
              THEN /\ Get(after, "relevance").kind = "array"
                   /\ Get(after, "errors") = Get(before, "errors")
              ELSE /\ IsNullish(Get(after, "relevance"))
                   /\ Get(after, "relevance") = Get(before, "relevance")
                   /\ Get(after, "errors")
                        = PushError(Get(before, "errors"), MsgNoDescription)]_vars

\* a detail page without description text whose only lineup link fails
C24_Witness ==
  /\ lastFetch.called
  /\ lastFetch.env.nav = "ok"
  /\ ~Obtained(lastFetch.env)
  /\ Len(lastFetch.env.links) >= 1
  /\ HasErrors(LastFetched)
  /\ IsNullish(Get(LastFetched, "relevance"))

\* the lineup links of a detail page whose fetch fails
FailedLinks(env) ==
  {i \in 1..Len(env.links) :
     /\ env.links[i].href.kind = "string"
     /\ env.links[i].href.val # <<>>
     /\ env.links[i].nav = "throw"}

\* the entries of an errors field, none when it is not set
ErrorsOf(event) ==
  IF Get(event, "errors").kind = "array" THEN Get(event, "errors").val
  ELSE <<>>

\* C25: a call of getEventDetailsFromPage whose detail page loaded counts one
\* error for every lineup link that fails and appends one entry for it to the
\* errors of the site and one to the errors of the event.
C25_LineupFailuresRecorded ==
  [][(lastFetch' # lastFetch /\ lastFetch'.called /\ lastFetch'.env.nav = "ok")
       => LET s == lastFetch'.site + 1
              before == sites[s].events[lastFetch'.index + 1]
              after == sites'[s].events[lastFetch'.index + 1]
              failed == Cardinality(FailedLinks(lastFetch'.env))
              last == IF Obtained(lastFetch'.env) THEN 0 ELSE 1
              atCall == IF visiting.started THEN visiting.errors
                        ELSE sites[s].errors
          IN  /\ lastFetch'.errorCount = failed + last
              /\ Len(sites'[s].errors) = Len(atCall) + failed + last
              /\ Len(ErrorsOf(after)) = Len(ErrorsOf(before)) + failed + last]_vars

\* C26: when getEventDetails has returned for a single-page site, every event
\* from the resume offset on that has a description has a list as relevance,
\* whatever the limit is, and no page was opened for an event of the site.
C26_SinglePageResolvedAtOnce ==
  (pc = "resolved"
     /\ ~IsTwoPageSiteSelector(band.websiteConfigs[Len(sites)].selectors)) =>
    LET s == Len(sites)
    IN  /\ \A i \in 1..Len(sites[s].events) :
             (offset >= 0 /\ i > offset
                /\ Truthy(Get(sites[s].events[i], "description")))
               => Get(sites[s].events[i], "relevance").kind = "array"
        /\ \A f \in fetched : f[1] # s - 1

\* a run with limit 0 that resolved an event of a single-page site from an
\* offset behind the first event, and a run that resolved two from offset 0
C26_Witness ==
  /\ pc = "resolved"
  /\ ~IsTwoPageSiteSelector(band.websiteConfigs[Len(sites)].selectors)
  /\ limit = 0
  /\ offset \in {0, 1}
  /\ Len(sites[Len(sites)].events) = offset + 2
  /\ \A i \in 1..2 :
       /\ Truthy(Get(sites[Len(sites)].events[i], "description"))
       /\ Get(sites[Len(sites)].events[i], "relevance").kind = "array"

\* C27: a pass of loadNextPage that reads the page clicks the load-more
\* control only if the site has a load-more selector, depth < maxDepth, and
\* the control was found, is visible and has an opacity above 0; a pass for
\* which one of these fails ends the harvest with the rows it just read,
\* without a click.  (A step in which the process exits, because the
\* page.close() after the return of loadNextPage rejects, resets reads.)
C27_ClicksOnlyUsableControl ==
  [][(hpc = "pass" /\ reads' = reads + 1)
       => LET usable == /\ CurrentConfig.selectors.loadMoreLink
                        /\ depth < MaxDepth
                        /\ control' \in {"visible", "broken"}
          IN  /\ clicks' # clicks => usable
              /\ ~usable =>
                   /\ clicks' = clicks
                   /\ hpc' = "idle"
                   /\ results' = ReadPage(dom, CurrentConfig.selectors, depth)]_vars

\* a harvest that clicked twice and ended at a control with opacity 0
C27_Witness ==
  /\ hpc = "idle"
  /\ pc = "harvested"
  /\ control = "transparent"
  /\ clicks = 2
  /\ depth = 2
  /\ results # <<>>

\* the ids of the rows loadNextPage returned
ReturnedIds == {GetEventId(results[i]) : i \in 1..Len(results)}

\* C28: the rows loadNextPage returns, and the site gets as events, are the
\* rows the deepest pass read from the page as it was then, nothing added.
C28_DeepestReadReturned ==
  (pc = "harvested" /\ MsgHarvest \notin Range(sites[1].errors)) =>
    /\ results = ReadPage(dom, band.websiteConfigs[1].selectors, depth)
    /\ sites[1].events = results

\* a harvest of two passes or more whose last page lists rows and lacks a row
\* an earlier pass read
C28_Witness ==
  /\ pc = "harvested"
  /\ MsgHarvest \notin Range(sites[1].errors)
  /\ depth >= 2
  /\ results # <<>>
  /\ seenRows \ ReturnedIds # {}

\* C29: every row read in a pass of loadNextPage, identified by name and
\* date, is among the rows the harvest returns.
C29_NoRowLost ==
  (pc = "harvested" /\ MsgHarvest \notin Range(sites[1].errors)) =>
    seenRows \subseteq ReturnedIds

\* C30: two harvested events with the same getEventId have the same name and
\* the same date.
C30_EventIdInjective ==
  pc = "harvested" =>
    \A i, j \in 1..Len(sites[1].events) :
      GetEventId(sites[1].events[i]) = GetEventId(sites[1].events[j]) =>
        /\ Get(sites[1].events[i], "name") = Get(sites[1].events[j], "name")
        /\ Get(sites[1].events[i], "date") = Get(sites[1].events[j], "date")

\* C31: within a run, an event the run harvested, one without a name or a
\* date included, is absent from the new events the run reports exactly when
\* updateRelevance carried relevance and errors onto it from a previous event.
C31_DeltaAgreesWithCarry ==
  pc = "determined" =>
    \A s \in 1..Len(sites) : \A i \in 1..Len(sites[s].events) :
      (MatchIn(newEvents[s].events, WrittenEvents(s)[i]) = 0)
        <=> (<<s - 1, i - 1>> \in carried)

\* C32: when search is run again and again with a limit of at least 1,
\* writes that succeed and a harvest that returns the same events in the same
\* order, a run comes after which every event of the two-page site has its
\* relevance or its errors set.
C32_EveryEventResolved ==
  <>(/\ pc = "determined"
     /\ \A s \in 1..Len(sites) : \A i \in 1..Len(sites[s].events) :
          ~ Unresolved(sites[s].events[i]))

\* C33: at every point of a run at most one page is open: a harvest or a
\* detail fetch opens its page when the page of the harvest or detail fetch
\* before it has been closed.
C33_OnePageAtATime ==
  pagesOpen <= 1

C35_DetailPassFrame ==
  [][pc' # "idle" => \A s \in 1..Len(sites) : \A j \in 1..Len(sites[s].events) :
       LET before == sites[s].events[j]
           after == sites'[s].events[j]
           selectors == band.websiteConfigs[ConfigOf(sites[s])].selectors
           remaining == Len(sites[s].events) - offset
           count == IF IsTwoPageSiteSelector(selectors)
                    THEN Min(limit, remaining) ELSE remaining
       IN  /\ Len(sites') = Len(sites)
           /\ Len(sites'[s].events) = Len(sites[s].events)
           /\ (s # siteIndex + 1 \/ j - 1 < offset \/ j - 1 >= offset + count)
                => /\ Get(after, "relevance") = Get(before, "relevance")
                   /\ Get(after, "errors") = Get(before, "errors")
           /\ Get(before, "relevance").kind = "array"
                => Get(after, "relevance") = Get(before, "relevance")]_vars

\* a pass over events 1..2 of four is over: event 0 was resolved before,
\* event 1 was fetched, event 2 had its relevance already and event 3 is
\* still unresolved
C35_Witness ==
  /\ pc = "resolved"
  /\ Len(sites) = 1
  /\ Len(sites[1].events) >= 4
  /\ limit = 2
  /\ offset = 1
  /\ fetched = {<<0, 1>>}
  /\ ~ Unresolved(sites[1].events[1])
  /\ Get(sites[1].events[3], "relevance").kind = "array"
  /\ Unresolved(sites[1].events[4])

\* C36: when the band config names a site identifier the site registry has
\* no entry for, the result of the run holds one site per identifier of the
\* config, one of them with the error of the missing config in its errors.
C36_UnknownSiteReported ==
  (pc = "determined" /\ \E k \in 1..Len(band.sites) :
                          band.sites[k] \notin DOMAIN Registry) =>
    /\ Len(sites) = Len(band.sites)
    /\ \E s \in 1..Len(sites) : MsgNoConfig \in Range(sites[s].errors)

\* C37: the result of normalizeWhitespace neither begins nor ends with
\* whitespace and has no two whitespace characters in a row, it is the empty
\* string for a null or absent input, and normalizeWhitespace applied to it
\* gives it back.
C37_NormalizeWhitespace ==
  /\ Len(normalized) >= 1 =>
       LET r == normalized[1]
       IN  /\ r.kind = "string"
           /\ r.val # <<>> => /\ ~ IsWhitespace(r.val[1])
                              /\ ~ IsWhitespace(r.val[Len(r.val)])
           /\ \A i \in 1..Len(r.val) - 1 :
                ~ (IsWhitespace(r.val[i]) /\ IsWhitespace(r.val[i + 1]))
           /\ IsNullish(input) => r = Str(<<>>)
  /\ Len(normalized) = 2 => normalized[2] = normalized[1]

\* both calls are over for an input that begins with a space and has a
\* newline between two letters
C37_Witness ==
  /\ Len(normalized) = 2
  /\ input = Str(<<" ", "a", "\n", "a">>)
  /\ normalized[1] = Str(<<"a", " ", "a">>)

\* the 0-based positions of the occurrences of term in text that a
\* left-to-right scan keeps: an occurrence is kept exactly when it overlaps
\* no kept occurrence to its left
KeptOccurrences(text, term) ==
  CHOOSE kept \in SUBSET (0..Len(text)) :
    \A q \in 0..Len(text) :
      q \in kept <=> /\ OccursAt(text, term, q)
                     /\ \A p \in kept : p < q => p + Len(term) <= q

\* the elements of a set of numbers in increasing order
RECURSIVE Ascending(_)
Ascending(set) ==
  IF set = {} THEN <<>>
  ELSE LET least == CHOOSE x \in set : \A y \in set : x <= y
       IN  <<least>> \o Ascending(set \ {least})

\* one snippet per kept occurrence of each of the terms k..Len(terms) in
\* text, term by term and, within a term, in position order
RECURSIVE SnippetsInOrder(_, _, _, _)
SnippetsInOrder(text, terms, k, contextLength) ==
  IF k > Len(terms) THEN <<>>
  ELSE LET at == Ascending(KeptOccurrences(text, terms[k]))
       IN  [j \in 1..Len(at) |-> Snippet(text, terms[k], at[j], contextLength)]
           \o SnippetsInOrder(text, terms, k + 1, contextLength)

\* C38: a call of findTextSnippets with terms that are not empty returns one
\* snippet for each occurrence of a term that overlaps no occurrence counted
\* to its left, the snippets of the first term first and, within a term, in
\* the order of their positions in the text.
C38_OneSnippetPerOccurrence ==
  fpc = "done" =>
    snippets = SnippetsInOrder(call.text, call.searchTerms, 1,
                               call.contextLength)

\* the call with text "aaaa" and the terms "aa" and "a" has returned two
\* snippets for "aa" and then four for "a"
C38_Witness ==
  /\ fpc = "done"
  /\ call.text = <<"a", "a", "a", "a">>
  /\ call.searchTerms = << <<"a", "a">>, <<"a">> >>
  /\ Len(snippets) = 6

\* s begins with the three dots of the ellipsis
StartsWithEllipsis(s) == Len(s) >= 3 /\ SubSeq(s, 1, 3) = Ellipsis

\* s ends with the three dots of the ellipsis
EndsWithEllipsis(s) == Len(s) >= 3 /\ SubSeq(s, Len(s) - 2, Len(s)) = Ellipsis

\* the current term of the call, while the loop is at a term
CurrentTerm == call.searchTerms[termAt + 1]

\* the loop of findTextSnippets has just pushed a snippet for a match of the
\* current term
JustPushed ==
  /\ fpc = "loop"
  /\ termAt < Len(call.searchTerms)
  /\ searchFrom > 0
  /\ snippets # <<>>

============================================================================
